---- MODULE Spec2Model ----
(***************************************************************************)
(* Model of the unused-node analysis of the MEE Blender add-on             *)
(* (utils.py, operators.py).  The world is a set of node trees made of     *)
(* nodes and links, plus the list of materials; the analysis functions are *)
(* operators computed the way the Python code computes them, and every     *)
(* call of one of them is an action that records its arguments and result. *)
(***************************************************************************)
EXTENDS Integers, Sequences, FiniteSets, TLC

VARIABLES
    nodes,      \* node identity -> [tree, bl_idname, name, node_tree]
    links,      \* set of [from_node, to_node]: output socket -> input socket
    materials,  \* bpy.data.materials: sequence of [name, use_nodes, node_tree]
    set_order,  \* iteration order of Python sets of nodes (a permutation)
    op,         \* name of the last function called
    arg,        \* its arguments [tree, parent_tree_name, show_attributes]
    ret_nodes,  \* its result when it returns a list / set of nodes
    ret_dict,   \* its result when it returns a Dict[Node, Dict]
    result,     \* how the call ended: "returned" / "raised" for a function,
                \* "FINISHED" / "CANCELLED" for an operator's execute
    reports     \* the operator.report calls of the call: [level, message]

world == <<nodes, links, materials, set_order>>
vars == <<nodes, links, materials, set_order, op, arg, ret_nodes, ret_dict,
          result, reports>>

-----------------------------------------------------------------------------
(* Bounds of the model.                                                    *)

MaxNodes == 3
MaxLinks == 2
MaxKindNodes == 2
MaxKindLinks == 1
MaxNestLinks == 2
MaxReportLinks == 2

-----------------------------------------------------------------------------
(* The host's node classes.  A node class is identified by its bl_idname;  *)
(* node.type is the host's static type enum of that class, the value the   *)
(* code compares at utils.py:60, 129, 159, 194 and operators.py:604.       *)

None == "None"

NodeNames == <<"n1", "n2", "n3", "n4", "n5", "n6", "n7", "n8", "n9", "n10", "n11", "n12">>

NodeClasses ==
    { "ShaderNodeOutputMaterial", "ShaderNodeOutputWorld", "ShaderNodeOutputLight",
      "CompositorNodeComposite", "CompositorNodeViewer", "CompositorNodeOutputFile",
      "NodeGroupOutput", "ShaderNodeGroup", "NodeFrame",
      "ShaderNodeAttribute", "GeometryNodeInputNamedAttribute",
      "ShaderNodeBsdfPrincipled" }

NodeType(bl_idname) ==
    CASE bl_idname = "ShaderNodeOutputMaterial"        -> "OUTPUT_MATERIAL"
      [] bl_idname = "ShaderNodeOutputWorld"           -> "OUTPUT_WORLD"
      [] bl_idname = "ShaderNodeOutputLight"           -> "OUTPUT_LIGHT"
      [] bl_idname = "CompositorNodeComposite"         -> "COMPOSITE"
      [] bl_idname = "CompositorNodeViewer"            -> "VIEWER"
      [] bl_idname = "CompositorNodeOutputFile"        -> "OUTPUT_FILE"
      [] bl_idname = "NodeGroupOutput"                 -> "GROUP_OUTPUT"
      [] bl_idname = "ShaderNodeGroup"                 -> "GROUP"
      [] bl_idname = "NodeFrame"                       -> "FRAME"
      [] bl_idname = "ShaderNodeAttribute"             -> "ATTRIBUTE"
      [] bl_idname = "GeometryNodeInputNamedAttribute" -> "INPUT_ATTRIBUTE"
      [] OTHER                                         -> "BSDF_PRINCIPLED"

type(node) == NodeType(nodes[node].bl_idname)

\* node_tree.nodes as a set, and in collection order (ascending identity)
NodesOf(node_tree) == {n \in DOMAIN nodes : nodes[n].tree = node_tree}

IdLimit == IF DOMAIN nodes = {} THEN 0
           ELSE CHOOSE m \in DOMAIN nodes : \A n \in DOMAIN nodes : n <= m

NodeSeq(S) == SelectSeq([i \in 1..IdLimit |-> i], LAMBDA n : n \in S)

\* iteration over a Python set of nodes
SetSeq(S) == SelectSeq(set_order, LAMBDA n : n \in S)

Range(s) == {s[i] : i \in DOMAIN s}

EmptyDict == [n \in {} |-> None]

DictUpdate_keeps_earlier(d, other) ==
    [k \in DOMAIN d \cup DOMAIN other |-> IF k \in DOMAIN d THEN d[k] ELSE other[k]]

\* dict.update(other): entries of other replace entries of d
DictUpdate(d, other) ==
    [k \in DOMAIN d \cup DOMAIN other |-> IF k \in DOMAIN other THEN other[k] ELSE d[k]]

\* the trees that exist: those of the materials and those that own a node
Trees ==
    ({nodes[n].tree : n \in DOMAIN nodes}
     \cup {materials[i].node_tree : i \in DOMAIN materials}) \ {None}

-----------------------------------------------------------------------------
(* utils.py                                                                *)

output_types ==
    { "OUTPUT_MATERIAL", "OUTPUT_WORLD", "OUTPUT_LIGHT",
      "CompositorNodeComposite", "CompositorNodeOutputFile",
      "CompositorNodeViewer", "NodeGroupOutput" }

get_output_nodes(node_tree) ==
    {node \in NodesOf(node_tree) : type(node) \in output_types}

\* the nodes visit() recurses into, in order: the sources of the links on
\* the inputs, then the destinations of the links on the outputs
LinkedNodes(node) ==
    NodeSeq({l.from_node : l \in {k \in links : k.to_node = node}})
    \o NodeSeq({l.to_node : l \in {k \in links : k.from_node = node}})

RECURSIVE visit(_, _), visit_each(_, _)
visit(node, used) ==
    IF node \in used THEN used
    ELSE visit_each(LinkedNodes(node), used \cup {node})

visit_each(seq, used) ==
    IF seq = <<>> THEN used
    ELSE visit_each(Tail(seq), visit(Head(seq), used))

traverse_from_outputs(tree) ==
    visit_each(NodeSeq(get_output_nodes(tree)), {})

IsAttributeNode(node) ==
    \/ type(node) = "ATTRIBUTE"
    \/ nodes[node].bl_idname \in {"ShaderNodeAttribute", "GeometryNodeInputNamedAttribute"}

NodeInfo(node, tree_name) ==
    [type |-> type(node), materials |-> <<>>, connected_to_output |-> <<>>,
     parent_tree |-> tree_name]

\* find_unused_nodes that removes only the output nodes from all_nodes
find_unused_nodes_minus_outputs(node_tree, parent_tree_name, show_attributes) ==
    IF node_tree = None THEN EmptyDict
    ELSE IF get_output_nodes(node_tree) = {} THEN EmptyDict
    ELSE LET unused_nodes == NodesOf(node_tree) \ get_output_nodes(node_tree)
             shown == IF ~show_attributes
                      THEN {node \in unused_nodes : ~IsAttributeNode(node)}
                      ELSE unused_nodes
             tree_name == IF parent_tree_name # "" THEN parent_tree_name ELSE node_tree
         IN  [node \in shown |-> NodeInfo(node, tree_name)]

\* find_unused_nodes without the early return for a tree with no output node
find_unused_nodes_no_output_check(node_tree, parent_tree_name, show_attributes) ==
    IF node_tree = None THEN EmptyDict
    ELSE LET unused_nodes == NodesOf(node_tree) \ traverse_from_outputs(node_tree)
             shown == IF ~show_attributes
                      THEN {node \in unused_nodes : ~IsAttributeNode(node)}
                      ELSE unused_nodes
             tree_name == IF parent_tree_name # "" THEN parent_tree_name ELSE node_tree
         IN  [node \in shown |-> NodeInfo(node, tree_name)]

find_unused_nodes(node_tree, parent_tree_name, show_attributes) ==
    IF node_tree = None THEN EmptyDict
    ELSE IF get_output_nodes(node_tree) = {} THEN EmptyDict
    ELSE LET used_nodes == traverse_from_outputs(node_tree)
             all_nodes == NodesOf(node_tree)
             unused_nodes == all_nodes \ used_nodes
             shown == IF ~show_attributes
                      THEN {node \in unused_nodes : ~IsAttributeNode(node)}
                      ELSE unused_nodes
             tree_name == IF parent_tree_name # "" THEN parent_tree_name ELSE node_tree
         IN  [node \in shown |-> NodeInfo(node, tree_name)]

is_group_connected_to_output(group_node, node_tree) ==
    IF group_node \notin DOMAIN nodes \/ node_tree = None THEN FALSE
    ELSE \E l \in links : l.from_node = group_node

RECURSIVE find_unused_nodes_recursive(_, _, _), ExpandGroups(_, _, _, _)

\* find_unused_nodes_recursive whose nested call leaves show_attributes at
\* its default (True)
RECURSIVE ExpandGroups_default_show(_, _, _)
ExpandGroups_default_show(keys, unused_dict, parent_tree_name) ==
    IF keys = <<>> THEN unused_dict
    ELSE LET node == Head(keys)
         IN  IF type(node) = "GROUP" /\ nodes[node].node_tree # None
             THEN LET nested_tree_name ==
                          IF parent_tree_name # ""
                          THEN parent_tree_name \o "." \o nodes[node].name
                          ELSE nodes[node].name
                      nested_unused ==
                          find_unused_nodes_recursive(nodes[node].node_tree,
                                                      nested_tree_name, TRUE)
                  IN  ExpandGroups_default_show(Tail(keys),
                                                DictUpdate(unused_dict, nested_unused),
                                                parent_tree_name)
             ELSE ExpandGroups_default_show(Tail(keys), unused_dict, parent_tree_name)

find_unused_nodes_recursive_default_show(node_tree, parent_tree_name, show_attributes) ==
    IF node_tree = None THEN EmptyDict
    ELSE LET unused_dict == find_unused_nodes(node_tree, parent_tree_name, show_attributes)
         IN  ExpandGroups_default_show(SetSeq(DOMAIN unused_dict), unused_dict,
                                       parent_tree_name)

find_unused_nodes_recursive(node_tree, parent_tree_name, show_attributes) ==
    IF node_tree = None THEN EmptyDict
    ELSE LET unused_dict == find_unused_nodes(node_tree, parent_tree_name, show_attributes)
         IN  ExpandGroups(SetSeq(DOMAIN unused_dict), unused_dict,
                          parent_tree_name, show_attributes)

\* the loop "for node in list(unused_dict.keys())" of find_unused_nodes_recursive
ExpandGroups(keys, unused_dict, parent_tree_name, show_attributes) ==
    IF keys = <<>> THEN unused_dict
    ELSE LET node == Head(keys)
         IN  IF type(node) = "GROUP" /\ nodes[node].node_tree # None
             THEN LET nested_tree_name ==
                          IF parent_tree_name # ""
                          THEN parent_tree_name \o "." \o nodes[node].name
                          ELSE nodes[node].name
                      nested_unused ==
                          find_unused_nodes_recursive(nodes[node].node_tree,
                                                      nested_tree_name, show_attributes)
                  IN  ExpandGroups(Tail(keys), DictUpdate(unused_dict, nested_unused),
                                   parent_tree_name, show_attributes)
             ELSE ExpandGroups(Tail(keys), unused_dict, parent_tree_name, show_attributes)

\* UsageOfInstance that tests the outputs of the unused node of the record
\* instead of those of the instance found in the material
UsageOfInstance_tests_record_node(unused_dict, material, node) ==
    [unused_node \in DOMAIN unused_dict |->
        LET info == unused_dict[unused_node]
        IN  IF /\ type(unused_node) = "GROUP"
               /\ nodes[unused_node].node_tree = nodes[node].node_tree
               /\ material.name \notin Range(info.materials)
            THEN [info EXCEPT
                    !.materials = Append(@, material.name),
                    !.connected_to_output =
                        IF /\ material.name \notin Range(@)
                           /\ is_group_connected_to_output(unused_node, material.node_tree)
                        THEN Append(@, material.name)
                        ELSE @]
            ELSE info]

\* body of the loop over unused_dict.items() in collect_group_usage, for one
\* group node of one material
UsageOfInstance(unused_dict, material, node) ==
    [unused_node \in DOMAIN unused_dict |->
        LET info == unused_dict[unused_node]
        IN  IF /\ type(unused_node) = "GROUP"
               /\ nodes[unused_node].node_tree = nodes[node].node_tree
               /\ material.name \notin Range(info.materials)
            THEN [info EXCEPT
                    !.materials = Append(@, material.name),
                    !.connected_to_output =
                        IF /\ material.name \notin Range(@)
                           /\ is_group_connected_to_output(node, material.node_tree)
                        THEN Append(@, material.name)
                        ELSE @]
            ELSE info]

RECURSIVE UsageOfNodes(_, _, _)
UsageOfNodes(unused_dict, material, seq) ==
    IF seq = <<>> THEN unused_dict
    ELSE LET node == Head(seq)
         IN  IF type(node) = "GROUP" /\ nodes[node].node_tree # None
             THEN UsageOfNodes(UsageOfInstance(unused_dict, material, node),
                               material, Tail(seq))
             ELSE UsageOfNodes(unused_dict, material, Tail(seq))

RECURSIVE collect_group_usage(_, _)
collect_group_usage(unused_dict, mats) ==
    IF mats = <<>> THEN unused_dict
    ELSE LET material == Head(mats)
         IN  IF ~material.use_nodes \/ material.node_tree = None
             THEN collect_group_usage(unused_dict, Tail(mats))
             ELSE collect_group_usage(
                      UsageOfNodes(unused_dict, material,
                                   NodeSeq(NodesOf(material.node_tree))),
                      Tail(mats))

-----------------------------------------------------------------------------
(* operators.py: ReportManager.build_report, up to the record map the      *)
(* report text is rendered from.                                           *)

ReportMaterials ==
    SelectSeq(materials, LAMBDA mat : mat.use_nodes /\ mat.node_tree # None)

RECURSIVE CollectUnused(_, _, _)
CollectUnused(all_unused_dict, mats, show_attributes) ==
    IF mats = <<>> THEN all_unused_dict
    ELSE LET material == Head(mats)
             material_unused ==
                 find_unused_nodes_recursive(material.node_tree, material.name,
                                             show_attributes)
         IN  CollectUnused(DictUpdate(all_unused_dict, material_unused),
                           Tail(mats), show_attributes)

build_report(show_attributes) ==
    IF ReportMaterials = <<>> THEN EmptyDict
    ELSE collect_group_usage(CollectUnused(EmptyDict, ReportMaterials, show_attributes),
                             ReportMaterials)

-----------------------------------------------------------------------------
(* The worlds the analysis is run on.                                      *)

NewNode(n, tree, bl_idname, node_tree) ==
    [tree |-> tree, bl_idname |-> bl_idname, name |-> NodeNames[n], node_tree |-> node_tree]

Ascending(k) == [i \in 1..k |-> i]
Descending(k) == [i \in 1..k |-> k + 1 - i]

SameTree(ns, a, b) == ns[a].tree = ns[b].tree

\* every way of choosing one <<tree, bl_idname, node_tree>> per slot
RECURSIVE SlotPicks(_, _)
SlotPicks(slots, k) ==
    IF k = 0 THEN {<<>>}
    ELSE {Append(p, x) : p \in SlotPicks(slots, k - 1), x \in slots[k]}

NoCall ==
    /\ op = "init"
    /\ arg = [tree |-> None, parent_tree_name |-> "", show_attributes |-> TRUE]
    /\ ret_nodes = {}
    /\ ret_dict = EmptyDict
    /\ result = "returned"
    /\ reports = <<>>

\* one material A whose tree TA holds MaxNodes shader nodes, linked in any way
GraphClasses ==
    {"ShaderNodeOutputMaterial", "ShaderNodeBsdfPrincipled", "ShaderNodeAttribute"}

Init ==
    /\ \E cls \in [1..MaxNodes -> GraphClasses] :
           nodes = [n \in 1..MaxNodes |-> NewNode(n, "TA", cls[n], None)]
    /\ links \in {S \in SUBSET [from_node : 1..MaxNodes, to_node : 1..MaxNodes] :
                      Cardinality(S) <= MaxLinks}
    /\ materials = <<[name |-> "A", use_nodes |-> TRUE, node_tree |-> "TA"]>>
    /\ set_order = Ascending(MaxNodes)
    /\ NoCall

\* one tree whose nodes are of any class of the host
InitKinds ==
    /\ \E cls \in [1..MaxKindNodes -> NodeClasses] :
           nodes = [n \in 1..MaxKindNodes |-> NewNode(n, "TA", cls[n], None)]
    /\ links \in {S \in SUBSET [from_node : 1..MaxKindNodes, to_node : 1..MaxKindNodes] :
                      Cardinality(S) <= MaxKindLinks}
    /\ materials = <<[name |-> "A", use_nodes |-> TRUE, node_tree |-> "TA"]>>
    /\ set_order = Ascending(MaxKindNodes)
    /\ NoCall

\* material A with group nodes whose payload P itself instantiates Q
NestSlots ==
    << {<<"TA", "ShaderNodeOutputMaterial", None>>},
       {<<"TA", "ShaderNodeGroup", "P">>},
       {<<"TA", "ShaderNodeGroup", "P">>, <<"TA", "ShaderNodeBsdfPrincipled", None>>,
        <<"TA", "ShaderNodeAttribute", None>>},
       {<<"P", "ShaderNodeOutputMaterial", None>>, <<"P", "NodeGroupOutput", None>>},
       {<<"P", "ShaderNodeGroup", "Q">>, <<"P", "ShaderNodeBsdfPrincipled", None>>,
        <<"P", "ShaderNodeAttribute", None>>},
       {<<"P", "ShaderNodeBsdfPrincipled", None>>,
        <<"P", "GeometryNodeInputNamedAttribute", None>>},
       {<<"Q", "ShaderNodeOutputMaterial", None>>, <<"Q", "NodeGroupOutput", None>>},
       {<<"Q", "ShaderNodeBsdfPrincipled", None>>, <<"Q", "ShaderNodeAttribute", None>>} >>

InitNest ==
    /\ \E pick \in SlotPicks(NestSlots, Len(NestSlots)) :
           nodes = [n \in DOMAIN NestSlots |->
                       NewNode(n, pick[n][1], pick[n][2], pick[n][3])]
    /\ links \in {S \in SUBSET {l \in [from_node : DOMAIN NestSlots,
                                       to_node : DOMAIN NestSlots] :
                                    /\ l.from_node > l.to_node
                                    /\ SameTree(nodes, l.from_node, l.to_node)} :
                      Cardinality(S) <= MaxNestLinks}
    /\ materials = <<[name |-> "A", use_nodes |-> TRUE, node_tree |-> "TA"]>>
    /\ set_order \in {Ascending(Len(NestSlots)), Descending(Len(NestSlots))}
    /\ NoCall

\* materials A and B that both instantiate the payload P, and a material C
\* without a node tree
ReportSlots ==
    << {<<"TA", "ShaderNodeOutputMaterial", None>>,
        <<"TA", "ShaderNodeBsdfPrincipled", None>>},
       {<<"TA", "ShaderNodeGroup", "P">>},
       {<<"TA", "ShaderNodeGroup", "P">>, <<"TA", "ShaderNodeBsdfPrincipled", None>>},
       {<<"TB", "ShaderNodeOutputMaterial", None>>, <<"TB", "ShaderNodeBsdfPrincipled", None>>},
       {<<"TB", "ShaderNodeGroup", "P">>, <<"TB", "ShaderNodeBsdfPrincipled", None>>},
       {<<"TB", "ShaderNodeGroup", "P">>},
       {<<"P", "ShaderNodeOutputMaterial", None>>, <<"P", "NodeGroupOutput", None>>},
       {<<"P", "ShaderNodeBsdfPrincipled", None>>} >>

InitReport ==
    /\ \E pick \in SlotPicks(ReportSlots, Len(ReportSlots)) :
           nodes = [n \in DOMAIN ReportSlots |->
                       NewNode(n, pick[n][1], pick[n][2], pick[n][3])]
    /\ links \in {S \in SUBSET {l \in [from_node : DOMAIN ReportSlots,
                                       to_node : DOMAIN ReportSlots] :
                                    /\ l.from_node # l.to_node
                                    /\ nodes[l.from_node].tree = "TA" \/ l.from_node > l.to_node
                                    /\ SameTree(nodes, l.from_node, l.to_node)} :
                      Cardinality(S) <= MaxReportLinks}
    /\ \E use_b \in BOOLEAN :
           materials = <<[name |-> "A", use_nodes |-> TRUE, node_tree |-> "TA"],
                         [name |-> "B", use_nodes |-> use_b, node_tree |-> "TB"],
                         [name |-> "C", use_nodes |-> FALSE, node_tree |-> None]>>
    /\ set_order = Ascending(Len(ReportSlots))
    /\ NoCall

-----------------------------------------------------------------------------
(* The calls.  The analysis only reads the world, so a call made after    *)
(* another one would start from the very world the first one started       *)
(* from: a behaviour chooses a world and makes one call on it.             *)

\* (node_tree, parent_tree_name) as the callers pass them: the operators
\* pass the active tree (or none) and no name, the report passes a
\* material's tree and the material's name
CallSites ==
    {<<t, "">> : t \in Trees \cup {None}}
    \cup {<<ReportMaterials[i].node_tree, ReportMaterials[i].name>> :
              i \in DOMAIN ReportMaterials}

GetOutputNodes(t) ==
    /\ op = "init"
    /\ op' = "get_output_nodes"
    /\ arg' = [tree |-> t, parent_tree_name |-> "", show_attributes |-> TRUE]
    /\ ret_nodes' = get_output_nodes(t)
    /\ ret_dict' = EmptyDict
    /\ result' = "returned"
    /\ reports' = <<>>
    /\ UNCHANGED world

TraverseFromOutputs(t) ==
    /\ op = "init"
    /\ op' = "traverse_from_outputs"
    /\ arg' = [tree |-> t, parent_tree_name |-> "", show_attributes |-> TRUE]
    /\ ret_nodes' = traverse_from_outputs(t)
    /\ ret_dict' = EmptyDict
    /\ result' = "returned"
    /\ reports' = <<>>
    /\ UNCHANGED world

\* whether the call raises: get_output_nodes reads node_tree.nodes, which
\* None does not have; the two analysis functions return before that
get_output_nodes_raises(node_tree) == node_tree = None

find_unused_nodes_raises_unguarded(node_tree) == get_output_nodes_raises(node_tree)

find_unused_nodes_raises(node_tree) ==
    node_tree # None /\ get_output_nodes_raises(node_tree)

find_unused_nodes_recursive_raises(node_tree) ==
    node_tree # None /\ find_unused_nodes_raises(node_tree)

FindUnusedNodes(t, name, show) ==
    /\ op = "init"
    /\ op' = "find_unused_nodes"
    /\ arg' = [tree |-> t, parent_tree_name |-> name, show_attributes |-> show]
    /\ ret_nodes' = {}
    /\ ret_dict' = IF find_unused_nodes_raises(t) THEN EmptyDict
                   ELSE find_unused_nodes(t, name, show)
    /\ result' = IF find_unused_nodes_raises(t) THEN "raised" ELSE "returned"
    /\ reports' = <<>>
    /\ UNCHANGED world

FindUnusedNodesRecursive(t, name, show) ==
    /\ op = "init"
    /\ op' = "find_unused_nodes_recursive"
    /\ arg' = [tree |-> t, parent_tree_name |-> name, show_attributes |-> show]
    /\ ret_nodes' = {}
    /\ ret_dict' = IF find_unused_nodes_recursive_raises(t) THEN EmptyDict
                   ELSE find_unused_nodes_recursive(t, name, show)
    /\ result' = IF find_unused_nodes_recursive_raises(t) THEN "raised" ELSE "returned"
    /\ reports' = <<>>
    /\ UNCHANGED world

BuildReport(show) ==
    /\ op = "init"
    /\ op' = "build_report"
    /\ arg' = [tree |-> None, parent_tree_name |-> "", show_attributes |-> show]
    /\ ret_nodes' = {}
    /\ ret_dict' = build_report(show)
    /\ result' = "returned"
    /\ reports' = <<>>
    /\ UNCHANGED world

Next ==
    \/ \E t \in Trees : GetOutputNodes(t)
    \/ \E t \in Trees : TraverseFromOutputs(t)
    \/ \E c \in CallSites, show \in BOOLEAN : FindUnusedNodes(c[1], c[2], show)
    \/ \E c \in CallSites, show \in BOOLEAN : FindUnusedNodesRecursive(c[1], c[2], show)
    \/ \E show \in BOOLEAN : BuildReport(show)

Spec == Init /\ [][Next]_vars
SpecKinds == InitKinds /\ [][Next]_vars
SpecNest == InitNest /\ [][Next]_vars
SpecReport == InitReport /\ [][Next]_vars

-----------------------------------------------------------------------------
(* What the specification calls an output-terminal node, and reachability  *)
(* stated as the existence of a path of links.                             *)

OutputTerminalClasses ==
    { "ShaderNodeOutputMaterial", "ShaderNodeOutputWorld", "ShaderNodeOutputLight",
      "CompositorNodeComposite", "CompositorNodeViewer", "CompositorNodeOutputFile",
      "NodeGroupOutput" }

OutputTerminals(t) == {n \in NodesOf(t) : nodes[n].bl_idname \in OutputTerminalClasses}

Adjacent(a, b) ==
    \E l \in links : \/ l.from_node = a /\ l.to_node = b
                     \/ l.from_node = b /\ l.to_node = a

HasPath(t, a, b) ==
    \E k \in 1..Cardinality(NodesOf(t)) :
        \E p \in [1..k -> NodesOf(t)] :
            /\ p[1] = a
            /\ p[k] = b
            /\ \A i \in 1..(k - 1) : Adjacent(p[i], p[i + 1])

PathReachable(t) ==
    {n \in NodesOf(t) : \E o \in OutputTerminals(t) : HasPath(t, o, n)}

FindUnusedCalled ==
    op = "find_unused_nodes" /\ arg.tree # None /\ arg.show_attributes

-----------------------------------------------------------------------------
(* C1 (as claimed): for every graph, the used set of the traversal and the *)
(* keys of find_unused_nodes (attribute sources included) are disjoint and *)
(* their union is the node set of the graph.                               *)
C1_Partition ==
    FindUnusedCalled =>
        LET used == traverse_from_outputs(arg.tree)
            unused == DOMAIN ret_dict
        IN  /\ used \cap unused = {}
            /\ used \cup unused = NodesOf(arg.tree)

(* C1 (amended): the used set and the keys of find_unused_nodes are always *)
(* disjoint; their union is the node set of the graph when get_output_nodes*)
(* finds a node, and is empty when it finds none.                          *)
C1_PartitionIfOutputs ==
    FindUnusedCalled =>
        LET used == traverse_from_outputs(arg.tree)
            unused == DOMAIN ret_dict
        IN  /\ used \cap unused = {}
            /\ used \cup unused = IF get_output_nodes(arg.tree) # {}
                                  THEN NodesOf(arg.tree) ELSE {}

C1_Witness ==
    /\ FindUnusedCalled
    /\ DOMAIN ret_dict # {}
    /\ traverse_from_outputs(arg.tree) \ get_output_nodes(arg.tree) # {}

(* C2: a node is in the used set iff some output-terminal node of its      *)
(* graph has a path of links to it, each link taken in either direction;   *)
(* so every output-terminal node is used.                                  *)
C2_UsedIffPath ==
    op = "traverse_from_outputs" =>
        /\ ret_nodes = PathReachable(arg.tree)
        /\ OutputTerminals(arg.tree) \subseteq ret_nodes

(* C3: get_output_nodes returns exactly the nodes of the seven             *)
(* output-terminal classes, the group-output class included.               *)
C3_OutputTerminals ==
    op = "get_output_nodes" => ret_nodes = OutputTerminals(arg.tree)

(* C4 (as claimed): on a graph with no output-terminal node the used set   *)
(* is empty and find_unused_nodes reports every node of the graph.         *)
C4_AllUnused ==
    FindUnusedCalled /\ OutputTerminals(arg.tree) = {} =>
        /\ traverse_from_outputs(arg.tree) = {}
        /\ DOMAIN ret_dict = NodesOf(arg.tree)

(* C4 (amended): on a graph with no output-terminal node the used set is   *)
(* empty and find_unused_nodes returns an empty map: no node is reported.  *)
C4_NoneReported ==
    FindUnusedCalled /\ OutputTerminals(arg.tree) = {} =>
        /\ traverse_from_outputs(arg.tree) = {}
        /\ DOMAIN ret_dict = {}

C4_Witness ==
    /\ FindUnusedCalled
    /\ OutputTerminals(arg.tree) = {}
    /\ Cardinality(NodesOf(arg.tree)) = 3
    /\ \A n \in NodesOf(arg.tree) : \E m \in NodesOf(arg.tree) \ {n} : Adjacent(n, m)

-----------------------------------------------------------------------------
(* The report and the group usage.                                         *)

\* the group-instance nodes of tree t whose payload is the given tree
InstancesIn(t, payload) ==
    {n \in NodesOf(t) : type(n) = "GROUP" /\ nodes[n].node_tree = payload}

OutputLinked(n) == \E l \in links : l.from_node = n

\* the group records of the report
GroupRecords ==
    {r \in DOMAIN ret_dict : type(r) = "GROUP" /\ nodes[r].node_tree # None}

(* C5: in the report, a top-level graph with no output-terminal node       *)
(* contributes no record, however many nodes it has.                       *)
C5_NoOutputNoRecords ==
    op = "build_report" =>
        \A i \in DOMAIN ReportMaterials :
            OutputTerminals(ReportMaterials[i].node_tree) = {} =>
                DOMAIN ret_dict \cap NodesOf(ReportMaterials[i].node_tree) = {}

C5_Witness ==
    /\ op = "build_report"
    /\ DOMAIN ret_dict # {}
    /\ \E i \in DOMAIN ReportMaterials :
           /\ OutputTerminals(ReportMaterials[i].node_tree) = {}
           /\ Cardinality(NodesOf(ReportMaterials[i].node_tree)) >= 3

\* materials A and B (in that order) are the two graphs of the report, each
\* has one instance of the payload, B's has a linked output and A's has not
C8_Case(payload) ==
    /\ Len(ReportMaterials) = 2
    /\ \E a \in NodesOf(ReportMaterials[1].node_tree),
          b \in NodesOf(ReportMaterials[2].node_tree) :
           /\ InstancesIn(ReportMaterials[1].node_tree, payload) = {a}
           /\ InstancesIn(ReportMaterials[2].node_tree, payload) = {b}
           /\ ~OutputLinked(a)
           /\ OutputLinked(b)

(* C8: a payload instantiated once by A and once by B (in that order), the *)
(* instance in B with a linked output and the one in A without: the record *)
(* of an unused group node with that payload lists [A, B] as instantiating *)
(* containers and exactly [B] as output-connected.                         *)
C8_UsageLists ==
    op = "build_report" =>
        \A r \in GroupRecords :
            C8_Case(nodes[r].node_tree) =>
                /\ ret_dict[r].materials =
                       <<ReportMaterials[1].name, ReportMaterials[2].name>>
                /\ ret_dict[r].connected_to_output = <<ReportMaterials[2].name>>

C8_Witness ==
    /\ op = "build_report"
    /\ \E r \in GroupRecords : C8_Case(nodes[r].node_tree)

(* C9: after collect_group_usage, a material M is in the output-connected  *)
(* list of a group record iff M holds at least one instance of the record's*)
(* payload whose output is linked, whichever instance of M comes first.    *)
C9_ConnectedIff ==
    op = "build_report" =>
        \A r \in GroupRecords :
            \A i \in DOMAIN ReportMaterials :
                ReportMaterials[i].name \in Range(ret_dict[r].connected_to_output)
                <=> \E g \in InstancesIn(ReportMaterials[i].node_tree, nodes[r].node_tree) :
                        OutputLinked(g)

-----------------------------------------------------------------------------
(* The recursion into the payload of unused group nodes.                   *)

\* the unused set as the specification defines it
UnusedByPath(t) == NodesOf(t) \ PathReachable(t)

AttributeSourceClasses == {"ShaderNodeAttribute", "GeometryNodeInputNamedAttribute"}

IsAttributeSource(n) == nodes[n].bl_idname \in AttributeSourceClasses

(* C7: a group node g unused in the top-level graph <outer>, whose payload *)
(* has unused nodes: the recursive map holds g and every unused node of    *)
(* the payload, the latter with containment path "<outer>.<g.name>".       *)
(* Stated for a g that is the only instance of its payload in the graph.   *)
C7_NestedRecords ==
    /\ op = "find_unused_nodes_recursive"
    /\ arg.tree # None
    /\ arg.parent_tree_name # ""
    /\ arg.show_attributes
    => \A g \in UnusedByPath(arg.tree) :
           /\ type(g) = "GROUP"
           /\ nodes[g].node_tree # None
           /\ InstancesIn(arg.tree, nodes[g].node_tree) = {g}
           /\ UnusedByPath(nodes[g].node_tree) # {}
           => /\ g \in DOMAIN ret_dict
              /\ \A u \in UnusedByPath(nodes[g].node_tree) :
                     /\ u \in DOMAIN ret_dict
                     /\ ret_dict[u].parent_tree
                            = arg.parent_tree_name \o "." \o nodes[g].name

-----------------------------------------------------------------------------
(* utils.py: the layout.  A node of a laid-out world also carries          *)
(* [label, location, width, height, parent]: location is the node's stored *)
(* (x, y), height is dimensions[1], parent is the frame it is attached to. *)
(* Coordinates are integers.                                               *)

MaxLayoutNodes == 3

default_cols == 6
default_gap_x == 120
default_gap_y == 80
attr_offset == 150
frame_padding == 40

Min(S) == CHOOSE m \in S : \A v \in S : m <= v
Max(S) == CHOOSE m \in S : \A v \in S : v <= m

\* sum(values[:k]) of a list indexed from 0
RECURSIVE SumBelow(_, _)
SumBelow(values, k) == IF k = 0 THEN 0 ELSE values[k - 1] + SumBelow(values, k - 1)

\* str.replace(old, "")
RECURSIVE replace_by_empty(_, _)
replace_by_empty(s, old) ==
    IF Len(s) < Len(old) THEN s
    ELSE IF SubSeq(s, 1, Len(old)) = old
         THEN replace_by_empty(SubSeq(s, Len(old) + 1, Len(s)), old)
         ELSE SubSeq(s, 1, 1) \o replace_by_empty(SubSeq(s, 2, Len(s)), old)

KeyBefore_ascending_y(ns, a, b) ==
    \/ ns[a].location.y < ns[b].location.y
    \/ ns[a].location.y = ns[b].location.y /\ ns[a].location.x < ns[b].location.x

\* the sort key (-location.y, location.x)
KeyBefore(ns, a, b) ==
    \/ ns[a].location.y > ns[b].location.y
    \/ ns[a].location.y = ns[b].location.y /\ ns[a].location.x < ns[b].location.x

\* body applied to the value of v
Let(v, body(_)) == CHOOSE r \in {body(x) : x \in {v}} : TRUE

\* sorted(seq, key=...): stable, equal keys keep their order in seq
RECURSIVE sorted(_, _)
sorted(ns, seq) ==
    IF seq = <<>> THEN <<>>
    ELSE Let(sorted(ns, SubSeq(seq, 1, Len(seq) - 1)), LAMBDA front :
             Let(Cardinality({i \in DOMAIN front :
                                 ~KeyBefore(ns, seq[Len(seq)], front[i])}),
                 LAMBDA k : SubSeq(front, 1, k) \o <<seq[Len(seq)]>>
                            \o SubSeq(front, k + 1, Len(front))))

IndexOf(seq, n) == CHOOSE i \in DOMAIN seq : seq[i] = n

\* attr_to_parent: the first regular node named as the attribute node is
\* named, "Attr_" removed
attr_to_parent(ns, attr_nodes, regular_nodes) ==
    LET candidates(attr) ==
            {i \in DOMAIN regular_nodes :
                ns[regular_nodes[i]].name = replace_by_empty(ns[attr].name, "Attr_")}
    IN  [attr \in {a \in Range(attr_nodes) : candidates(a) # {}} |->
            regular_nodes[Min(candidates(attr))]]

\* node i (from 1) of the sorted list goes to column c, row r
col_w(ns, ordered, cols) ==
    [c \in 0..(cols - 1) |->
        Max({0} \cup {ns[ordered[i]].width :
                         i \in {j \in DOMAIN ordered : (j - 1) % cols = c}})]

row_h(ns, ordered, cols) ==
    [r \in 0..((Len(ordered) - 1) \div cols) |->
        Max({0} \cup {ns[ordered[i]].height :
                         i \in {j \in DOMAIN ordered : (j - 1) \div cols = r}})]

layout_nodes_grid(ns, node_list, cols, gap_x, gap_y) ==
    Let(SelectSeq(node_list, LAMBDA n : ns[n].label # "_tmp_attr"), LAMBDA regular_nodes :
    IF node_list = <<>> \/ regular_nodes = <<>> THEN ns
    ELSE
    Let(sorted(ns, regular_nodes), LAMBDA ordered :
    Let([col_w |-> col_w(ns, ordered, cols),
         row_h |-> row_h(ns, ordered, cols),
         origin_x |-> Min({ns[n].location.x : n \in Range(regular_nodes)}),
         origin_y |-> Max({ns[n].location.y : n \in Range(regular_nodes)}),
         attr_to_parent |->
             attr_to_parent(ns, SelectSeq(node_list, LAMBDA n : ns[n].label = "_tmp_attr"),
                            regular_nodes)],
        LAMBDA g :
    Let([n \in DOMAIN ns |->
            IF n \in Range(ordered)
            THEN Let(IndexOf(ordered, n) - 1, LAMBDA i :
                     [ns[n] EXCEPT !.location =
                         [x |-> g.origin_x + SumBelow(g.col_w, i % cols) + (i % cols) * gap_x,
                          y |-> g.origin_y - SumBelow(g.row_h, i \div cols)
                                    - (i \div cols) * gap_y]])
            ELSE ns[n]],
        LAMBDA grid :
    [n \in DOMAIN ns |->
        IF n \in DOMAIN g.attr_to_parent
        THEN [grid[n] EXCEPT !.location =
                 [x |-> grid[g.attr_to_parent[n]].location.x - attr_offset,
                  y |-> grid[g.attr_to_parent[n]].location.y]]
        ELSE grid[n]]))))

\* None where a node is expected (node.parent, a function's Optional[Node])
NoNode == 0

\* the host's node collection: a new node gets the next identity, a name
\* that is unique in its tree, no label, no parent, and the origin
NameSuffixes == <<"", ".001", ".002", ".003", ".004", ".005", ".006", ".007", ".008",
                  ".009", ".010", ".011", ".012">>

UniqueName(ns, tree, base, self) ==
    LET taken == {ns[n].name : n \in {m \in DOMAIN ns : ns[m].tree = tree /\ m # self}}
        k == Min({i \in DOMAIN NameSuffixes : base \o NameSuffixes[i] \notin taken})
    IN  base \o NameSuffixes[k]

FreshId(ns) == Max(DOMAIN ns \cup {0}) + 1

DefaultName(bl_idname) ==
    CASE bl_idname = "NodeFrame" -> "Frame"
      [] bl_idname = "GeometryNodeInputNamedAttribute" -> "Named Attribute"
      [] OTHER -> "Attribute"

nodes_new(ns, tree, bl_idname) ==
    [n \in DOMAIN ns \cup {FreshId(ns)} |->
        IF n \in DOMAIN ns THEN ns[n]
        ELSE [tree |-> tree, bl_idname |-> bl_idname,
              name |-> UniqueName(ns, tree, DefaultName(bl_idname), n),
              node_tree |-> None, label |-> "",
              location |-> [x |-> 0, y |-> 0], width |-> 140, height |-> 0,
              parent |-> NoNode, inputs |-> 0]]

used_min_x_default_leftmost(ns, used_nodes) ==
    IF used_nodes = <<>> THEN Min({ns[n].location.x : n \in DOMAIN ns})
    ELSE Min({ns[n].location.x : n \in Range(used_nodes)})

\* min((n.location.x for n in used_nodes), default=0.0)
used_min_x(ns, used_nodes) ==
    IF used_nodes = <<>> THEN 0
    ELSE Min({ns[n].location.x : n \in Range(used_nodes)})

max_group_x(ns, group_nodes) == Max({ns[n].location.x : n \in Range(group_nodes)})

dx_without_margin(ns, group_nodes, used_nodes, margin) ==
    used_min_x(ns, used_nodes) - max_group_x(ns, group_nodes)

dx(ns, group_nodes, used_nodes, margin) ==
    (used_min_x(ns, used_nodes) - margin) - max_group_x(ns, group_nodes)

place_group_left_of_used(ns, tree, group_nodes, used_nodes, margin) ==
    IF group_nodes = <<>> THEN [nodes |-> ns, frame |-> NoNode]
    ELSE
    Let(layout_nodes_grid(ns, group_nodes, default_cols, default_gap_x, default_gap_y),
        LAMBDA laid :
    Let(dx(laid, group_nodes, used_nodes, margin), LAMBDA shift :
    Let([n \in DOMAIN laid |->
            IF n \in Range(group_nodes)
            THEN [laid[n] EXCEPT !.location.x = @ + shift]
            ELSE laid[n]],
        LAMBDA moved :
    Let(FreshId(moved), LAMBDA frame :
    Let([nodes_new(moved, tree, "NodeFrame") EXCEPT
            ![frame].label = "The Material Editor Exterminatus",
            ![frame].location =
                [x |-> Min({moved[n].location.x : n \in Range(group_nodes)}) - frame_padding,
                 y |-> Max({moved[n].location.y : n \in Range(group_nodes)}) + frame_padding],
            ![frame].width = 0],
        LAMBDA framed :
    [nodes |-> [n \in DOMAIN framed |->
                   IF n \in Range(group_nodes)
                   THEN [framed[n] EXCEPT !.parent = frame]
                   ELSE framed[n]],
     frame |-> frame])))))

-----------------------------------------------------------------------------
(* The worlds of the layout: one tree TA of MaxLayoutNodes nodes at drawn  *)
(* positions and sizes; the last node is a regular node, the temporary     *)
(* attribute node of node 1, or a temporary attribute node whose target is *)
(* gone.                                                                   *)

LayoutCols == {1, 2}
LayoutXs == {0, 300}
LayoutYs == {0, 200}
SmallSize == <<140, 100>>
LargeSize == <<240, 130>>

LaidNode(bl_idname, name, label, x, y, size) ==
    [tree |-> "TA", bl_idname |-> bl_idname, name |-> name, node_tree |-> None,
     label |-> label, location |-> [x |-> x, y |-> y],
     width |-> size[1], height |-> size[2], parent |-> NoNode, inputs |-> 0]

LastNodeKinds ==
    { <<"ShaderNodeBsdfPrincipled", NodeNames[MaxLayoutNodes], "">>,
      <<"ShaderNodeAttribute", "Attr_" \o NodeNames[1], "_tmp_attr">>,
      <<"ShaderNodeAttribute", "Attr_gone", "_tmp_attr">> }

\* at most one node (large) is larger than the others
InitLayout ==
    /\ \E kind \in LastNodeKinds, large \in 0..MaxLayoutNodes :
       \E at \in [1..MaxLayoutNodes -> LayoutXs \X LayoutYs] :
           nodes = [n \in 1..MaxLayoutNodes |->
                       LET size == IF n = large THEN LargeSize ELSE SmallSize
                       IN  IF n = MaxLayoutNodes
                           THEN LaidNode(kind[1], kind[2], kind[3], at[n][1], at[n][2], size)
                           ELSE LaidNode("ShaderNodeBsdfPrincipled", NodeNames[n], "",
                                         at[n][1], at[n][2], size)]
    /\ links = {}
    /\ materials = <<[name |-> "A", use_nodes |-> TRUE, node_tree |-> "TA"]>>
    /\ set_order = Ascending(MaxLayoutNodes)
    /\ NoCall

\* the lists of the nodes of S that a caller may pass
Reverse(seq) == [i \in DOMAIN seq |-> seq[Len(seq) + 1 - i]]
ListsOf(S) == IF S = DOMAIN nodes THEN {NodeSeq(S), Reverse(NodeSeq(S))}
              ELSE {NodeSeq(S)}

LayoutNodesGrid(node_list, cols) ==
    /\ op = "init"
    /\ op' = "layout_nodes_grid"
    /\ arg' = [nodes |-> node_list, cols |-> cols, gap_x |-> default_gap_x,
               gap_y |-> default_gap_y, before |-> nodes]
    /\ nodes' = layout_nodes_grid(nodes, node_list, cols, default_gap_x, default_gap_y)
    /\ ret_nodes' = {}
    /\ ret_dict' = EmptyDict
    /\ result' = "returned"
    /\ reports' = <<>>
    /\ UNCHANGED <<links, materials, set_order>>

PlaceGroupLeftOfUsed(group_nodes, used_nodes, margin) ==
    /\ op = "init"
    /\ op' = "place_group_left_of_used"
    /\ arg' = [group_nodes |-> group_nodes, used_nodes |-> used_nodes,
               margin |-> margin, before |-> nodes]
    /\ LET placed == place_group_left_of_used(nodes, "TA", group_nodes, used_nodes, margin)
       IN  /\ nodes' = placed.nodes
           /\ ret_nodes' = {placed.frame} \ {NoNode}
    /\ ret_dict' = EmptyDict
    /\ result' = "returned"
    /\ reports' = <<>>
    /\ UNCHANGED <<links, materials, set_order>>

default_margin == 400

NextLayout ==
    \/ \E S \in SUBSET DOMAIN nodes : \E node_list \in ListsOf(S) : \E cols \in LayoutCols :
           LayoutNodesGrid(node_list, cols)
    \/ \E S \in SUBSET DOMAIN nodes : \E U \in {{}, DOMAIN nodes \ S} :
           PlaceGroupLeftOfUsed(NodeSeq(S), NodeSeq(U), default_margin)

SpecLayout == InitLayout /\ [][NextLayout]_vars

-----------------------------------------------------------------------------
(* The grid as the specification states it: the members, in an order of    *)
(* descending y then ascending x, fill the rows of a grid of the given     *)
(* number of columns from the origin (xo, yo).                             *)

ColumnOf(i, columns) == (i - 1) % columns
RowOf(i, columns) == (i - 1) \div columns

InGridOrder(before, order) ==
    \A i, j \in DOMAIN order :
        i < j => \/ before[order[i]].location.y > before[order[j]].location.y
                 \/ /\ before[order[i]].location.y = before[order[j]].location.y
                    /\ before[order[i]].location.x <= before[order[j]].location.x

GridCell(before, order, i, columns, gapX, gapY, xo, yo) ==
    LET width(col) == Max({before[order[j]].width :
                              j \in {k \in DOMAIN order : ColumnOf(k, columns) = col}})
        height(row) == Max({before[order[j]].height :
                               j \in {k \in DOMAIN order : RowOf(k, columns) = row}})
        widths == [col \in 0..(ColumnOf(i, columns) - 1) |-> width(col)]
        heights == [row \in 0..(RowOf(i, columns) - 1) |-> height(row)]
    IN  [x |-> xo + SumBelow(widths, ColumnOf(i, columns)) + ColumnOf(i, columns) * gapX,
         y |-> yo - SumBelow(heights, RowOf(i, columns)) - RowOf(i, columns) * gapY]

IsGridOf(before, after, members, columns, gapX, gapY) ==
    LET xo == Min({before[n].location.x : n \in members})
        yo == Max({before[n].location.y : n \in members})
    IN  \E order \in [1..Cardinality(members) -> members] :
            /\ \A n \in members : \E i \in DOMAIN order : order[i] = n
            /\ InGridOrder(before, order)
            /\ \A i \in DOMAIN order :
                   after[order[i]].location =
                       GridCell(before, order, i, columns, gapX, gapY, xo, yo)

LayoutCalled == op = "layout_nodes_grid" /\ arg.nodes # <<>>

RegularOf(before, members) == {n \in members : before[n].label # "_tmp_attr"}

(* C11 (as claimed): layout_nodes_grid places the nodes of its input list  *)
(* on the grid: ordered by descending y then ascending x, index i in row   *)
(* i div columns and column i mod columns, x = origin_x + widths of the    *)
(* columns before + c * gapX, y = origin_y - heights of the rows before    *)
(* - r * gapY, the origin being the minimum x and maximum y of the input   *)
(* nodes before the layout.                                                *)
C11_GridOfInput ==
    LayoutCalled =>
        IsGridOf(arg.before, nodes, Range(arg.nodes), arg.cols, arg.gap_x, arg.gap_y)

(* C11 (amended): the grid is that of the input nodes not labelled         *)
(* _tmp_attr, and its origin is the minimum x and maximum y of those nodes *)
(* alone; with no such node nothing moves.                                 *)
C11_GridOfRegular ==
    LayoutCalled =>
        LET regular == RegularOf(arg.before, Range(arg.nodes))
        IN  IF regular = {} THEN nodes = arg.before
            ELSE IsGridOf(arg.before, nodes, regular, arg.cols, arg.gap_x, arg.gap_y)

\* a grid of two rows and two columns whose nodes differ in size, next to a
\* temporary attribute node that lies left of and above the regular nodes
C11_Witness ==
    /\ LayoutCalled
    /\ arg.cols = 2
    /\ Cardinality(RegularOf(arg.before, Range(arg.nodes))) >= 3
    /\ \E n, m \in RegularOf(arg.before, Range(arg.nodes)) :
           arg.before[n].width # arg.before[m].width
    /\ nodes # arg.before

-----------------------------------------------------------------------------
PlaceCalled == op = "place_group_left_of_used" /\ arg.group_nodes # <<>>

\* the left edge of the bounding box of the used nodes, 0 when there is none
UsedLeft ==
    IF arg.used_nodes = <<>> THEN 0
    ELSE Min({arg.before[n].location.x : n \in Range(arg.used_nodes)})

(* C12 (as claimed): after place_group_left_of_used with a non-empty group *)
(* the maximum x of the group nodes is (minimum x of the used nodes, 0 if  *)
(* none) - margin, and no group node extends into the margin: every group  *)
(* node ends, at x + width, at or before that line.                        *)
C12_ClearOfMargin ==
    PlaceCalled =>
        /\ Max({nodes[n].location.x : n \in Range(arg.group_nodes)}) = UsedLeft - arg.margin
        /\ \A n \in Range(arg.group_nodes) :
               nodes[n].location.x + nodes[n].width <= UsedLeft - arg.margin

(* C12 (amended): after place_group_left_of_used with a non-empty group    *)
(* the maximum stored x (the left edge) of the group nodes is (minimum x   *)
(* of the used nodes, 0 if none) - margin; a group node at that x extends  *)
(* by its width into the margin.                                           *)
C12_LeftEdgesAtMargin ==
    PlaceCalled =>
        /\ Max({nodes[n].location.x : n \in Range(arg.group_nodes)}) = UsedLeft - arg.margin
        /\ \E n \in Range(arg.group_nodes) :
               /\ nodes[n].location.x = UsedLeft - arg.margin
               /\ nodes[n].location.x + nodes[n].width > UsedLeft - arg.margin

\* two group nodes are moved left of a used node, and one of them reaches
\* into the margin
C12_Witness ==
    /\ PlaceCalled
    /\ Len(arg.group_nodes) >= 2
    /\ arg.used_nodes # <<>>
    /\ \E n \in Range(arg.group_nodes) :
           /\ nodes[n].location # arg.before[n].location
           /\ nodes[n].location.x + nodes[n].width > UsedLeft - arg.margin

-----------------------------------------------------------------------------
Offsets == {[x |-> 70, y |-> -30], [x |-> -300, y |-> 200]}

Shift(ns, S, d) ==
    [n \in DOMAIN ns |->
        IF n \in S
        THEN [ns[n] EXCEPT !.location = [x |-> @.x + d.x, y |-> @.y + d.y]]
        ELSE ns[n]]

\* the same call on the scene moved by d
PlacedAfterShift(d) ==
    place_group_left_of_used(Shift(arg.before, DOMAIN arg.before, d), "TA",
                             arg.group_nodes, arg.used_nodes, arg.margin).nodes

(* C13 (as claimed): for every scene, an empty used list included, and     *)
(* every offset d, place_group_left_of_used on the scene moved by d yields *)
(* the positions of the unmoved run moved by d.                            *)
C13_TranslationInvariant ==
    PlaceCalled =>
        \A d \in Offsets : PlacedAfterShift(d) = Shift(nodes, DOMAIN nodes, d)

(* C13 (amended): with a non-empty used list the positions of the run on   *)
(* the moved scene are those of the unmoved run moved by d; with an empty  *)
(* used list the group nodes and the frame keep the x of the unmoved run   *)
(* (the block ends at -margin) and only their y moves by d.                *)
C13_InvariantIfUsed ==
    PlaceCalled =>
        \A d \in Offsets :
            IF arg.used_nodes # <<>>
            THEN PlacedAfterShift(d) = Shift(nodes, DOMAIN nodes, d)
            ELSE LET block == Range(arg.group_nodes) \cup ret_nodes
                 IN  PlacedAfterShift(d) =
                         Shift(Shift(nodes, DOMAIN nodes \ block, d),
                               block, [x |-> 0, y |-> d.y])

C13_Witness ==
    /\ PlaceCalled
    /\ Len(arg.group_nodes) >= 2
    /\ arg.used_nodes = <<>>
    /\ DOMAIN arg.before # Range(arg.group_nodes)
    /\ \E n \in Range(arg.group_nodes) : nodes[n].location # arg.before[n].location

-----------------------------------------------------------------------------
(* operators.py: the operators that change the node trees.  In their       *)
(* worlds a link also names the input socket it enters, [from_node,        *)
(* to_node, to_socket], and a node has `inputs` input sockets, numbered    *)
(* from 1.  A world value w is [nodes, links].                             *)

MaxOpsLinks == 2
MaxOpsIds == 12
MaxOpsShift == 1000

World == [nodes |-> nodes, links |-> links]

\* node_tree.nodes of the world w, in collection order
TreeNodes(w, node_tree) ==
    SelectSeq([i \in 1..Max(DOMAIN w.nodes \cup {0}) |-> i],
              LAMBDA n : n \in DOMAIN w.nodes /\ w.nodes[n].tree = node_tree)

\* node_tree.nodes.remove(node): the host refuses a node that is not in
\* the collection (RuntimeError); otherwise the node goes with its links,
\* and the nodes attached to it are detached
nodes_remove_raises(w, node_tree, node) ==
    node \notin DOMAIN w.nodes \/ w.nodes[node].tree # node_tree

nodes_remove_children_attached(w, node_tree, node) ==
    [nodes |-> [n \in DOMAIN w.nodes \ {node} |-> w.nodes[n]],
     links |-> {l \in w.links : l.from_node # node /\ l.to_node # node}]

nodes_remove(w, node_tree, node) ==
    [nodes |-> [n \in DOMAIN w.nodes \ {node} |->
                   IF w.nodes[n].parent = node /\ w.nodes[n].tree = node_tree
                   THEN [w.nodes[n] EXCEPT !.parent = NoNode]
                   ELSE w.nodes[n]],
     links |-> {l \in w.links : l.from_node # node /\ l.to_node # node}]

\* for node in keys: node_tree.nodes.remove(node), up to the first refusal
RECURSIVE remove_each(_, _, _)
remove_each(w, node_tree, keys) ==
    IF keys = <<>> THEN [nodes |-> w.nodes, links |-> w.links, raised |-> FALSE]
    ELSE IF nodes_remove_raises(w, node_tree, Head(keys))
         THEN [nodes |-> w.nodes, links |-> w.links, raised |-> TRUE]
         ELSE remove_each(nodes_remove(w, node_tree, Head(keys)), node_tree, Tail(keys))

keys_after_the_first(unused_dict, node_tree) ==
    Tail(SetSeq({n \in DOMAIN unused_dict : nodes[n].tree = node_tree})
         \o SetSeq({n \in DOMAIN unused_dict : nodes[n].tree # node_tree}))

\* unused_dict.keys(): the records of the tree itself come first, those
\* merged in from the payloads of its group nodes after them
keys(unused_dict, node_tree) ==
    SetSeq({n \in DOMAIN unused_dict : nodes[n].tree = node_tree})
    \o SetSeq({n \in DOMAIN unused_dict : nodes[n].tree # node_tree})

Report(level, message, count) == [level |-> level, message |-> message, count |-> count]

validate_node_tree_info(tree) ==
    IF tree = None
    THEN [valid |-> FALSE, reports |-> <<Report("INFO", "no active node tree", 0)>>]
    ELSE [valid |-> TRUE, reports |-> <<>>]

\* NodeTreeProcessor.validate_node_tree: whether the tree is valid, and
\* what it reports through the operator
validate_node_tree(tree) ==
    IF tree = None
    THEN [valid |-> FALSE, reports |-> <<Report("WARNING", "no active node tree", 0)>>]
    ELSE [valid |-> TRUE, reports |-> <<>>]

\* the operators are invoked one after the other
PendingOps == {"node.delete_all_unused_nodes:loop",
               "node.group_unused_nodes_active:process",
               "node.group_unused_nodes_all:loop",
               "node.group_unused_nodes_all:process"}

Idle == op \notin PendingOps

\* NODE_OT_DeleteUnusedNodes.execute, tree being the active node tree
DeleteUnusedNodes(tree) ==
    /\ Idle
    /\ op' = "node.delete_unused_nodes"
    /\ arg' = [tree |-> tree, before |-> World]
    /\ ret_nodes' = {}
    /\ UNCHANGED <<materials, set_order>>
    /\ IF ~validate_node_tree(tree).valid
       THEN /\ reports' = validate_node_tree(tree).reports
            /\ result' = "CANCELLED"
            /\ ret_dict' = EmptyDict
            /\ UNCHANGED <<nodes, links>>
       ELSE \E unused_dict \in {find_unused_nodes_recursive(tree, "", TRUE)} :
            /\ ret_dict' = unused_dict
            /\ IF DOMAIN unused_dict = {}
               THEN /\ reports' = <<Report("INFO", "no unused nodes found", 0)>>
                    /\ result' = "FINISHED"
                    /\ UNCHANGED <<nodes, links>>
               ELSE \E w \in {remove_each(World, tree, keys(unused_dict, tree))} :
                    /\ nodes' = w.nodes
                    /\ links' = w.links
                    /\ IF w.raised
                       THEN /\ reports' = <<Report("ERROR", "error while deleting", 0)>>
                            /\ result' = "CANCELLED"
                       ELSE /\ reports' = <<Report("INFO", "deleted unused nodes",
                                                   Cardinality(DOMAIN unused_dict))>>
                            /\ result' = "FINISHED"

\* NODE_OT_DeleteAllUnusedNodes.execute: the loop over bpy.data.materials,
\* one material per step
DeleteAllUnusedNodes ==
    /\ Idle
    /\ op' = "node.delete_all_unused_nodes:loop"
    /\ arg' = [tree |-> None, before |-> World, index |-> 1,
               total_deleted |-> 0, materials_processed |-> 0]
    /\ ret_nodes' = {}
    /\ ret_dict' = EmptyDict
    /\ result' = "RUNNING"
    /\ reports' = <<>>
    /\ UNCHANGED world

DeleteAllMaterial ==
    /\ op = "node.delete_all_unused_nodes:loop"
    /\ arg.index <= Len(materials)
    /\ ret_nodes' = {}
    /\ UNCHANGED <<materials, set_order>>
    /\ \E material \in {materials[arg.index]} :
       IF ~(material.use_nodes /\ material.node_tree # None)
       THEN /\ arg' = [arg EXCEPT !.index = @ + 1]
            /\ UNCHANGED <<nodes, links, op, ret_dict, result, reports>>
       ELSE \E unused_dict \in {find_unused_nodes_recursive(material.node_tree, "", TRUE)} :
            \E w \in {remove_each(World, material.node_tree,
                                  keys(unused_dict, material.node_tree))} :
            /\ ret_dict' = DictUpdate(ret_dict, unused_dict)
            /\ nodes' = w.nodes
            /\ links' = w.links
            /\ IF w.raised
               THEN /\ op' = "node.delete_all_unused_nodes"
                    /\ reports' = <<Report("ERROR", "error while deleting", 0)>>
                    /\ result' = "CANCELLED"
                    /\ UNCHANGED arg
               ELSE /\ arg' = [arg EXCEPT !.index = @ + 1,
                                          !.total_deleted = @ + Cardinality(DOMAIN unused_dict),
                                          !.materials_processed = @ + 1]
                    /\ UNCHANGED <<op, result, reports>>

DeleteAllFinish ==
    /\ op = "node.delete_all_unused_nodes:loop"
    /\ arg.index > Len(materials)
    /\ op' = "node.delete_all_unused_nodes"
    /\ reports' = IF arg.total_deleted = 0
                  THEN <<Report("INFO", "no unused nodes found", 0)>>
                  ELSE <<Report("INFO", "deleted unused nodes", arg.total_deleted)>>
    /\ result' = "FINISHED"
    /\ UNCHANGED <<world, arg, ret_nodes, ret_dict>>

-----------------------------------------------------------------------------
(* BaseGroupUnusedNodes                                                    *)

is_linked(ls, node, socket) == \E l \in ls : l.to_node = node /\ l.to_socket = socket

links_new_into_output(ns, ls, node_tree, from_node, to_node, to_socket) ==
    ls \cup {[from_node |-> from_node,
              to_node |-> CHOOSE o \in DOMAIN ns :
                              /\ ns[o].tree = node_tree
                              /\ ns[o].bl_idname = "ShaderNodeOutputMaterial",
              to_socket |-> 1]}

\* node_tree.links.new(output_socket, input_socket): the host makes no link
\* (and returns None) unless both sockets belong to nodes of node_tree
links_new(ns, ls, node_tree, from_node, to_node, to_socket) ==
    IF ns[from_node].tree = node_tree /\ ns[to_node].tree = node_tree
    THEN ls \cup {[from_node |-> from_node, to_node |-> to_node, to_socket |-> to_socket]}
    ELSE ls

remove_existing_unused_frame(w, node_tree) ==
    Let(SelectSeq(TreeNodes(w, node_tree),
                  LAMBDA n : /\ NodeType(w.nodes[n].bl_idname) = "FRAME"
                             /\ w.nodes[n].name = "UNUSED_FRAME"),
        LAMBDA existing_frame :
            IF existing_frame = <<>> THEN [nodes |-> w.nodes, links |-> w.links]
            ELSE nodes_remove(w, node_tree, existing_frame[1]))

remove_tmp_attribute_nodes_kept(w, node_tree) ==
    [nodes |-> w.nodes, links |-> w.links, raised |-> FALSE]

remove_tmp_attribute_nodes(w, node_tree) ==
    remove_each(w, node_tree,
                SelectSeq(TreeNodes(w, node_tree),
                          LAMBDA n : /\ \/ NodeType(w.nodes[n].bl_idname) = "ATTRIBUTE"
                                        \/ w.nodes[n].bl_idname \in
                                               {"ShaderNodeAttribute",
                                                "GeometryNodeInputNamedAttribute"}
                                     /\ w.nodes[n].label = "_tmp_attr"))

\* the first input socket of the node that is not linked, 0 when none
free_input(w, target_node) ==
    LET free == {i \in 1..w.nodes[target_node].inputs :
                    ~is_linked(w.links, target_node, i)}
    IN  IF free = {} THEN 0 ELSE Min(free)

\* node_tree.type of the trees of the model
TreeType(node_tree) == "SHADER"

add_attribute_node(w, node_tree, target_node) ==
    IF free_input(w, target_node) = 0
    THEN [nodes |-> w.nodes, links |-> w.links, attr_node |-> NoNode]
    ELSE
    Let(FreshId(w.nodes), LAMBDA attr_node :
    Let([nodes_new(w.nodes, node_tree,
                   IF TreeType(node_tree) = "GEOMETRY"
                   THEN "GeometryNodeInputNamedAttribute" ELSE "ShaderNodeAttribute")
            EXCEPT ![attr_node].name =
                       UniqueName(w.nodes, node_tree,
                                  "Attr_" \o w.nodes[target_node].name, attr_node),
                   ![attr_node].label = "_tmp_attr"],
        LAMBDA created :
    [nodes |-> created,
     links |-> links_new(created, w.links, node_tree, attr_node, target_node,
                         free_input(w, target_node)),
     attr_node |-> attr_node]))

\* pairs.append((attr_node, node)) for node in unused_dict.keys()
RECURSIVE add_attribute_nodes(_, _, _)
add_attribute_nodes(w, node_tree, targets) ==
    IF targets = <<>> THEN [nodes |-> w.nodes, links |-> w.links, pairs |-> <<>>]
    ELSE Let(add_attribute_node(w, node_tree, Head(targets)), LAMBDA added :
         Let(add_attribute_nodes(added, node_tree, Tail(targets)), LAMBDA rest :
             [nodes |-> rest.nodes, links |-> rest.links,
              pairs |-> <<<<added.attr_node, Head(targets)>>>> \o rest.pairs]))

RECURSIVE all_nodes(_)
all_nodes(pairs) ==
    IF pairs = <<>> THEN <<>>
    ELSE (IF pairs[1][1] # NoNode THEN <<pairs[1][1]>> ELSE <<>>)
         \o <<pairs[1][2]>> \o all_nodes(Tail(pairs))

create_unused_frame(w, node_tree, pairs) ==
    IF pairs = <<>> THEN w.nodes
    ELSE
    Let(all_nodes(pairs), LAMBDA group :
    Let(place_group_left_of_used(
            w.nodes, node_tree, group,
            SelectSeq(TreeNodes(w, node_tree),
                      LAMBDA n : /\ n \notin Range(group)
                                 /\ NodeType(w.nodes[n].bl_idname) # "FRAME"),
            default_margin),
        LAMBDA placed :
            IF placed.frame = NoNode THEN placed.nodes
            ELSE [placed.nodes EXCEPT
                     ![placed.frame].name =
                         UniqueName(placed.nodes, node_tree, "UNUSED_FRAME", placed.frame),
                     ![placed.frame].label = "UNUSED"]))

\* _process_node_tree up to the analysis: the old frame and the old
\* attribute nodes go
process_node_tree_clean(w, node_tree) ==
    remove_tmp_attribute_nodes(remove_existing_unused_frame(w, node_tree), node_tree)

\* _process_node_tree from the analysis on, unused_dict being the analysis
\* of the cleaned tree: [nodes, links, found]
process_node_tree_group(w, node_tree, unused_dict) ==
    IF DOMAIN unused_dict = {} THEN [nodes |-> w.nodes, links |-> w.links, found |-> FALSE]
    ELSE Let(add_attribute_nodes(w, node_tree, keys(unused_dict, node_tree)), LAMBDA added :
             [nodes |-> create_unused_frame(added, node_tree, added.pairs),
              links |-> added.links, found |-> TRUE])

\* the identities of the nodes a run creates stay within set_order, and the
\* coordinates, which every further run may shift to the left, within
\* MaxOpsShift
RoomForNodes ==
    /\ IdLimit <= MaxOpsIds
    /\ \A n \in DOMAIN nodes : nodes[n].location.x >= 0 - MaxOpsShift

\* NODE_OT_GroupUnusedNodesActive.execute, tree being the active node tree
GroupUnusedNodesActive(tree) ==
    /\ Idle
    /\ RoomForNodes
    /\ ret_nodes' = {}
    /\ ret_dict' = EmptyDict
    /\ UNCHANGED <<materials, set_order>>
    /\ IF ~validate_node_tree(tree).valid
       THEN /\ op' = "node.group_unused_nodes_active"
            /\ reports' = validate_node_tree(tree).reports
            /\ result' = "CANCELLED"
            /\ arg' = [tree |-> tree, before |-> World, cleaned |-> World]
            /\ UNCHANGED <<nodes, links>>
       ELSE \E w \in {process_node_tree_clean(World, tree)} :
            /\ op' = "node.group_unused_nodes_active:process"
            /\ arg' = [tree |-> tree, before |-> World,
                       cleaned |-> [nodes |-> w.nodes, links |-> w.links]]
            /\ nodes' = w.nodes
            /\ links' = w.links
            /\ reports' = <<>>
            /\ result' = "RUNNING"

GroupUnusedNodesActiveProcess ==
    /\ op = "node.group_unused_nodes_active:process"
    /\ op' = "node.group_unused_nodes_active"
    /\ \E unused_dict \in {find_unused_nodes_recursive(arg.tree, "", TRUE)} :
       \E w \in {process_node_tree_group(World, arg.tree, unused_dict)} :
           /\ ret_dict' = unused_dict
           /\ nodes' = w.nodes
           /\ links' = w.links
           /\ reports' = IF w.found
                         THEN <<Report("INFO", "unused nodes grouped", 0)>>
                         ELSE <<Report("INFO", "no unused nodes found", 0)>>
    /\ result' = "FINISHED"
    /\ UNCHANGED <<materials, set_order, arg, ret_nodes>>

\* NODE_OT_GroupUnusedNodesAll.execute: the loop over bpy.data.materials
GroupUnusedNodesAll ==
    /\ Idle
    /\ RoomForNodes
    /\ op' = "node.group_unused_nodes_all:loop"
    /\ arg' = [tree |-> None, before |-> World, cleaned |-> World, index |-> 1,
               materials_processed |-> 0, materials_with_unused |-> 0]
    /\ ret_nodes' = {}
    /\ ret_dict' = EmptyDict
    /\ result' = "RUNNING"
    /\ reports' = <<>>
    /\ UNCHANGED world

GroupAllMaterial ==
    /\ op = "node.group_unused_nodes_all:loop"
    /\ arg.index <= Len(materials)
    /\ UNCHANGED <<materials, set_order, ret_nodes, ret_dict, result, reports>>
    /\ \E material \in {materials[arg.index]} :
       IF ~(material.use_nodes /\ material.node_tree # None)
       THEN /\ arg' = [arg EXCEPT !.index = @ + 1]
            /\ UNCHANGED <<nodes, links, op>>
       ELSE \E w \in {process_node_tree_clean(World, material.node_tree)} :
            /\ op' = "node.group_unused_nodes_all:process"
            /\ nodes' = w.nodes
            /\ links' = w.links
            /\ arg' = [arg EXCEPT !.tree = material.node_tree,
                                  !.cleaned = [nodes |-> w.nodes, links |-> w.links]]

GroupAllMaterialProcess ==
    /\ op = "node.group_unused_nodes_all:process"
    /\ op' = "node.group_unused_nodes_all:loop"
    /\ \E node_tree \in {materials[arg.index].node_tree} :
       \E unused_dict \in {find_unused_nodes_recursive(node_tree, "", TRUE)} :
       \E w \in {process_node_tree_group(World, node_tree, unused_dict)} :
           /\ ret_dict' = DictUpdate(ret_dict, unused_dict)
           /\ nodes' = w.nodes
           /\ links' = w.links
           /\ arg' = [arg EXCEPT !.index = @ + 1,
                                 !.materials_processed = @ + 1,
                                 !.materials_with_unused = @ + (IF w.found THEN 1 ELSE 0)]
    /\ UNCHANGED <<materials, set_order, ret_nodes, result, reports>>

GroupAllFinish ==
    /\ op = "node.group_unused_nodes_all:loop"
    /\ arg.index > Len(materials)
    /\ op' = "node.group_unused_nodes_all"
    /\ reports' = IF arg.materials_with_unused = 0
                  THEN <<Report("INFO", "no unused nodes found", 0)>>
                  ELSE <<Report("INFO", "materials processed", arg.materials_processed)>>
    /\ result' = "FINISHED"
    /\ UNCHANGED <<world, arg, ret_nodes, ret_dict>>

-----------------------------------------------------------------------------
(* The worlds of the operators: material A, whose tree TA holds an output  *)
(* node and two more nodes, one of them possibly a group node of payload   *)
(* P, the other possibly a frame named UNUSED_FRAME or a temporary         *)
(* attribute node left by an earlier run; and a material C without nodes.  *)

OpsNode(tree, bl_idname, name, node_tree, label, x, inputs) ==
    [tree |-> tree, bl_idname |-> bl_idname, name |-> name, node_tree |-> node_tree,
     label |-> label, location |-> [x |-> x, y |-> 0],
     width |-> SmallSize[1], height |-> SmallSize[2], parent |-> NoNode, inputs |-> inputs]

OpsSlots ==
    << {OpsNode("TA", "ShaderNodeOutputMaterial", "n1", None, "", 600, 1)},
       {OpsNode("TA", "ShaderNodeBsdfPrincipled", "n2", None, "", 300, 2),
        OpsNode("TA", "ShaderNodeGroup", "n2", "P", "", 300, 1)},
       {OpsNode("TA", "ShaderNodeBsdfPrincipled", "n3", None, "", 0, 2),
        OpsNode("TA", "ShaderNodeBsdfPrincipled", "UNUSED_FRAME", None, "", 0, 2),
        OpsNode("TA", "ShaderNodeBsdfPrincipled", "Attr_n3", None, "", 0, 2),
        OpsNode("TA", "NodeFrame", "UNUSED_FRAME", None, "UNUSED", 0, 0),
        OpsNode("TA", "NodeFrame", "Frame", None, "", 0, 0),
        OpsNode("TA", "ShaderNodeAttribute", "Attr_n2", None, "_tmp_attr", 0, 0)},
       {OpsNode("P", "ShaderNodeOutputMaterial", "n4", None, "", 300, 1),
        OpsNode("P", "NodeGroupOutput", "n4", None, "", 300, 1)},
       {OpsNode("P", "ShaderNodeBsdfPrincipled", "n5", None, "", 0, 2),
        OpsNode("P", "ShaderNodeBsdfPrincipled", "n2", None, "", 0, 2),
        OpsNode("P", "NodeFrame", "Frame", None, "", 0, 0)} >>

\* a link leaves a node that has outputs and enters an input socket
OpsLinks(ns) ==
    {l \in [from_node : DOMAIN ns, to_node : DOMAIN ns, to_socket : 1..2] :
        /\ l.from_node # l.to_node
        /\ SameTree(ns, l.from_node, l.to_node)
        /\ NodeType(ns[l.from_node].bl_idname) \notin {"OUTPUT_MATERIAL", "GROUP_OUTPUT", "FRAME"}
        /\ l.to_socket <= ns[l.to_node].inputs}

InitOps ==
    /\ \E pick \in SlotPicks(OpsSlots, Len(OpsSlots)) :
       \E attached \in IF pick[3].bl_idname = "NodeFrame" THEN SUBSET {1, 2} ELSE {{}} :
           nodes = [n \in DOMAIN OpsSlots |->
                       IF n \in attached THEN [pick[n] EXCEPT !.parent = 3] ELSE pick[n]]
    /\ links \in {S \in SUBSET OpsLinks(nodes) :
                     /\ Cardinality(S) <= MaxOpsLinks
                     /\ \A l, m \in S :
                            l.to_node = m.to_node /\ l.to_socket = m.to_socket => l = m}
    /\ materials = <<[name |-> "A", use_nodes |-> TRUE, node_tree |-> "TA"],
                     [name |-> "C", use_nodes |-> FALSE, node_tree |-> None]>>
    /\ set_order \in {Ascending(MaxOpsIds + Len(OpsSlots) + 1),
                      Descending(MaxOpsIds + Len(OpsSlots) + 1)}
    /\ NoCall

NextOps ==
    \/ \E tree \in {None, "TA"} : DeleteUnusedNodes(tree)
    \/ DeleteAllUnusedNodes
    \/ DeleteAllMaterial
    \/ DeleteAllFinish
    \/ \E tree \in {None, "TA"} : GroupUnusedNodesActive(tree)
    \/ GroupUnusedNodesActiveProcess
    \/ GroupUnusedNodesAll
    \/ GroupAllMaterial
    \/ GroupAllMaterialProcess
    \/ GroupAllFinish

SpecOps == InitOps /\ [][NextOps]_vars

-----------------------------------------------------------------------------
\* a delete-unused operator has run on a graph; ret_dict holds the unused
\* nodes its analysis found, arg.before the world it started from
DeleteDone ==
    \/ op = "node.delete_unused_nodes" /\ arg.tree # None
    \/ op = "node.delete_all_unused_nodes"

(* C14: delete-unused on a graph with k unused nodes removes exactly those *)
(* k nodes and reports the count k (k = 0: nothing found); the other nodes *)
(* remain and no link is left with a removed node as an endpoint.          *)
C14_RemovesExactlyUnused ==
    DeleteDone =>
        /\ DOMAIN nodes = DOMAIN arg.before.nodes \ DOMAIN ret_dict
        /\ reports = IF DOMAIN ret_dict = {}
                     THEN <<Report("INFO", "no unused nodes found", 0)>>
                     ELSE <<Report("INFO", "deleted unused nodes",
                                   Cardinality(DOMAIN ret_dict))>>
        /\ \A l \in links : l.from_node \in DOMAIN nodes /\ l.to_node \in DOMAIN nodes

(* C15: delete-unused removes every node it found from the graph that owns *)
(* it: a node found unused inside the payload of an unused group node is   *)
(* gone from that payload graph after the run.                             *)
C15_RemovedFromOwner ==
    DeleteDone =>
        \A n \in DOMAIN ret_dict :
            arg.before.nodes[n].tree \notin {m.node_tree : m \in Range(materials)}
                => n \notin DOMAIN nodes

-----------------------------------------------------------------------------
\* a group-unused operator has run on a graph: arg.tree is the graph it
\* processed last, arg.cleaned the world after its removals and before
\* its analysis
GroupDone ==
    \/ op = "node.group_unused_nodes_active" /\ arg.tree # None
    \/ op = "node.group_unused_nodes_all" /\ arg.tree # None

UnusedFrames(ns, node_tree) ==
    {n \in DOMAIN ns : /\ ns[n].tree = node_tree
                       /\ NodeType(ns[n].bl_idname) = "FRAME"
                       /\ ns[n].name = "UNUSED_FRAME"}

TmpAttrs(ns, node_tree) ==
    {n \in DOMAIN ns : /\ ns[n].tree = node_tree
                       /\ ns[n].bl_idname \in {"ShaderNodeAttribute",
                                               "GeometryNodeInputNamedAttribute"}
                       /\ ns[n].label = "_tmp_attr"}

-----------------------------------------------------------------------------
\* the nodes and the links the invocation created after its removals
CreatedNodes == DOMAIN nodes \ DOMAIN arg.cleaned.nodes

CreatedLinks == links \ arg.cleaned.links

\* the input sockets of u that were unlinked when the invocation analysed
UnlinkedInputs(u) ==
    {i \in 1..arg.cleaned.nodes[u].inputs :
        \A l \in arg.cleaned.links : ~(l.to_node = u /\ l.to_socket = i)}

CreatedAttrs ==
    {a \in CreatedNodes : nodes[a].bl_idname = "ShaderNodeAttribute"
                          /\ nodes[a].label = "_tmp_attr"}

(* C17: in group-unused, for each unused node u: if u has an unlinked      *)
(* input socket, exactly one link is created into u, from a new attribute  *)
(* node to the first unlinked input of u; otherwise no link is created     *)
(* into u; one attribute node is created per unused node with an unlinked  *)
(* input, and every unused node is put into the new frame.                 *)
C17_AttributePerFreeInput ==
    GroupDone =>
        /\ \A u \in DOMAIN ret_dict :
              /\ UnlinkedInputs(u) # {} =>
                    \E a \in CreatedAttrs :
                        {l \in CreatedLinks : l.to_node = u} =
                            {[from_node |-> a, to_node |-> u,
                              to_socket |-> Min(UnlinkedInputs(u))]}
              /\ UnlinkedInputs(u) = {} => {l \in CreatedLinks : l.to_node = u} = {}
              /\ nodes[u].parent \in CreatedNodes
              /\ nodes[nodes[u].parent].bl_idname = "NodeFrame"
        /\ Cardinality(CreatedAttrs) =
               Cardinality({u \in DOMAIN ret_dict : UnlinkedInputs(u) # {}})
        /\ \A l \in CreatedLinks : l.to_node \in DOMAIN ret_dict

-----------------------------------------------------------------------------
\* the nodes of the world w that a path of links, in either direction,
\* joins to a node of S
RECURSIVE Connected(_, _)
Connected(w, S) ==
    Let(S \cup {l.from_node : l \in {k \in w.links : k.to_node \in S}}
          \cup {l.to_node : l \in {k \in w.links : k.from_node \in S}},
        LAMBDA next : IF next = S THEN S ELSE Connected(w, next))

\* the nodes of the graph that were used when the invocation began
UsedBefore ==
    Connected(arg.before,
              {n \in DOMAIN arg.before.nodes :
                  /\ arg.before.nodes[n].tree = arg.tree
                  /\ arg.before.nodes[n].bl_idname \in
                         {"ShaderNodeOutputMaterial", "NodeGroupOutput"}})

SameLinksAmong(S) ==
    {l \in links : l.from_node \in S /\ l.to_node \in S}
        = {l \in arg.before.links : l.from_node \in S /\ l.to_node \in S}

(* C18: group-unused does not disturb used nodes: every node used before   *)
(* the operator runs is still there with the same position and the same    *)
(* parent reference, and the links between used nodes are the same.        *)
C18_UsedUndisturbed ==
    GroupDone =>
        /\ \A n \in UsedBefore :
              /\ n \in DOMAIN nodes
              /\ nodes[n].location = arg.before.nodes[n].location
              /\ nodes[n].parent = arg.before.nodes[n].parent
        /\ SameLinksAmong(UsedBefore)

\* the nodes of the graph that are used once the invocation has removed the
\* old frame and the old _tmp_attr attribute nodes
UsedCleaned ==
    Connected(arg.cleaned,
              {n \in DOMAIN arg.cleaned.nodes :
                  /\ arg.cleaned.nodes[n].tree = arg.tree
                  /\ arg.cleaned.nodes[n].bl_idname \in
                         {"ShaderNodeOutputMaterial", "NodeGroupOutput"}})

(* C18, as the code has it: the nodes that are used once the old frame and *)
(* the old _tmp_attr attribute nodes are removed keep their position and   *)
(* the links among them; they keep their parent too, unless the parent was *)
(* the old UNUSED_FRAME, which goes and leaves them without parent.  A     *)
(* node used before the run is disturbed only if it is such an attribute   *)
(* node, which is removed, or was used through one, and is quarantined.    *)
C18_UsedKeptButLeftovers ==
    GroupDone =>
        /\ UsedCleaned \subseteq UsedBefore
        /\ \A n \in UsedCleaned :
              /\ n \in DOMAIN nodes
              /\ nodes[n].location = arg.before.nodes[n].location
              /\ nodes[n].parent =
                     IF arg.before.nodes[n].parent
                            \in UnusedFrames(arg.before.nodes, arg.tree)
                     THEN NoNode ELSE arg.before.nodes[n].parent
        /\ SameLinksAmong(UsedCleaned)
        /\ \A a \in UsedBefore \ UsedCleaned :
              \/ a \in TmpAttrs(arg.before.nodes, arg.tree) \ DOMAIN arg.cleaned.nodes
              \/ /\ a \in DOMAIN ret_dict
                 /\ \E t \in TmpAttrs(arg.before.nodes, arg.tree) :
                        t \in Connected(arg.before, {a})

\* a used node was attached to the old frame, and the run has quarantined
\* and moved an unused node
C18_Witness ==
    /\ GroupDone
    /\ \E n \in UsedBefore :
           /\ arg.before.nodes[n].parent \in UnusedFrames(arg.before.nodes, arg.tree)
           /\ nodes[n].parent = NoNode
    /\ \E u \in DOMAIN ret_dict :
           /\ nodes[u].parent \in CreatedNodes
           /\ nodes[u].location # arg.before.nodes[u].location

-----------------------------------------------------------------------------
\* an operator of the active tree was invoked where there is no active tree
NoActiveTree ==
    /\ op \in {"node.delete_unused_nodes", "node.group_unused_nodes_active"}
    /\ arg.tree = None

(* C19: invoked with no active graph, delete-unused and group-unused       *)
(* report an informational message, end with the finished status and       *)
(* modify no graph.                                                        *)
C19_InfoAndFinished ==
    NoActiveTree =>
        /\ Len(reports) = 1
        /\ reports[1].level = "INFO"
        /\ result = "FINISHED"
        /\ World = arg.before

(* C19, as the code has it: invoked with no active graph, both operators   *)
(* report one warning, end with the cancelled status and modify no graph.  *)
C19_WarningAndCancelled ==
    NoActiveTree =>
        /\ Len(reports) = 1
        /\ reports[1].level = "WARNING"
        /\ result = "CANCELLED"
        /\ World = arg.before

\* group-unused invoked without an active tree, in a world that has
\* something to quarantine
C19_Witness ==
    /\ NoActiveTree
    /\ op = "node.group_unused_nodes_active"
    /\ result = "CANCELLED"
    /\ DOMAIN find_unused_nodes_recursive("TA", "", TRUE) # {}

-----------------------------------------------------------------------------
\* one of the two analysis functions was called
AnalysisCalled == op \in {"find_unused_nodes", "find_unused_nodes_recursive"}

-----------------------------------------------------------------------------
(* traverse_from_outputs, step by step: besides the set `used` the         *)
(* traversal is followed by the list of the nodes whose links visit() went *)
(* on to expand, one entry each time it passed the membership test.        *)

MaxTraverseLinks == 5

TraverseIds == {1, 2, 3, 4}

RECURSIVE visit_expanding(_, _), visit_each_expanding(_, _)
visit_expanding(node, st) ==
    IF node \in st.used THEN st
    ELSE visit_each_expanding(LinkedNodes(node),
                              [used |-> st.used \cup {node},
                               expanded |-> Append(st.expanded, node)])

visit_each_expanding(seq, st) ==
    IF seq = <<>> THEN st
    ELSE visit_each_expanding(Tail(seq), visit_expanding(Head(seq), st))

RECURSIVE traverse_expanding_used_per_output(_, _)
traverse_expanding_used_per_output(outs, st) ==
    IF outs = <<>> THEN st
    ELSE traverse_expanding_used_per_output(
             Tail(outs),
             Let(visit_expanding(Head(outs), [used |-> {}, expanded |-> st.expanded]),
                 LAMBDA r : [used |-> st.used \cup r.used, expanded |-> r.expanded]))

\* for out_node in get_output_nodes(tree): visit(out_node)
RECURSIVE traverse_expanding(_, _)
traverse_expanding(outs, st) ==
    IF outs = <<>> THEN st
    ELSE traverse_expanding(Tail(outs), visit_expanding(Head(outs), st))

TraverseFromOutputsExpanding(t) ==
    /\ op = "init"
    /\ op' = "traverse_from_outputs:expanding"
    /\ \E st \in {traverse_expanding(NodeSeq(get_output_nodes(t)),
                                     [used |-> {}, expanded |-> <<>>])} :
           /\ ret_nodes' = st.used
           /\ arg' = [tree |-> t, parent_tree_name |-> "", show_attributes |-> TRUE,
                      expanded |-> st.expanded]
    /\ ret_dict' = EmptyDict
    /\ result' = "returned"
    /\ reports' = <<>>
    /\ UNCHANGED world

\* one tree of four nodes, the first an output node, linked in any way:
\* self-links, link cycles, diamonds
InitTraverse ==
    /\ \E cls \in [TraverseIds \ {1} ->
                      {"ShaderNodeOutputMaterial", "ShaderNodeBsdfPrincipled"}] :
           nodes = [n \in TraverseIds |->
                       NewNode(n, "TA", IF n = 1 THEN "ShaderNodeOutputMaterial" ELSE cls[n],
                               None)]
    /\ links \in {S \in SUBSET [from_node : TraverseIds, to_node : TraverseIds] :
                      Cardinality(S) <= MaxTraverseLinks}
    /\ materials = <<[name |-> "A", use_nodes |-> TRUE, node_tree |-> "TA"]>>
    /\ set_order = Ascending(Cardinality(TraverseIds))
    /\ NoCall

NextTraverse ==
    \/ \E t \in Trees : TraverseFromOutputs(t)
    \/ \E t \in Trees : TraverseFromOutputsExpanding(t)

SpecTraverse == InitTraverse /\ [][NextTraverse]_vars

(* C21: traverse_from_outputs terminates on every finite graph, with       *)
(* diamonds, link cycles, self-links and several output nodes, and expands *)
(* the links of each node at most once: the nodes it expanded are pairwise *)
(* distinct and are exactly the nodes of the used set it returns.          *)
C21_EachNodeExpandedOnce ==
    op = "traverse_from_outputs:expanding" =>
        /\ \A i, j \in DOMAIN arg.expanded :
               arg.expanded[i] = arg.expanded[j] => i = j
        /\ Range(arg.expanded) = ret_nodes
        /\ ret_nodes = traverse_from_outputs(arg.tree)
        /\ Len(arg.expanded) <= Cardinality(NodesOf(arg.tree))

\* the traversal has returned on a graph with two output nodes, a self-link
\* and a node that two paths join to the first output node
C21_Witness ==
    /\ op = "traverse_from_outputs:expanding"
    /\ result = "returned"
    /\ Cardinality(get_output_nodes(arg.tree)) = 2
    /\ \E n \in TraverseIds : [from_node |-> n, to_node |-> n] \in links
    /\ \E a, b, c \in TraverseIds \ {1} :
           /\ a # b /\ a # c /\ b # c
           /\ {[from_node |-> a, to_node |-> 1], [from_node |-> b, to_node |-> 1],
               [from_node |-> c, to_node |-> a], [from_node |-> c, to_node |-> b]}
                  \subseteq links
    /\ Len(arg.expanded) = Cardinality(TraverseIds)

-----------------------------------------------------------------------------
\* the unused group nodes of the tree whose payload is P, in the order in
\* which find_unused_nodes_recursive expands them
UnusedInstances(tree) ==
    SelectSeq(SetSeq(NodesOf(tree)),
              LAMBDA g : /\ g \in DOMAIN find_unused_nodes(tree, "", TRUE)
                         /\ type(g) = "GROUP"
                         /\ nodes[g].node_tree = "P")

\* the materials of the report that hold such an instance, in report order
MaterialsWithInstances ==
    SelectSeq(ReportMaterials, LAMBDA mat : UnusedInstances(mat.node_tree) # <<>>)

PathVia(name, g) ==
    IF name # "" THEN name \o "." \o nodes[g].name ELSE nodes[g].name

First(seq) == seq[1]

Last(seq) == seq[Len(seq)]

\* the records of the nodes of the payload P in the result
PayloadRecords == {n \in DOMAIN ret_dict : nodes[n].tree = "P"}

RecursiveOnMaterialTree ==
    /\ op = "find_unused_nodes_recursive"
    /\ arg.tree \in {"TA", "TB"}
    /\ UnusedInstances(arg.tree) # <<>>

ReportWithInstances ==
    /\ op = "build_report"
    /\ MaterialsWithInstances # <<>>

(* C22: a record found later never overwrites a record found earlier: a   *)
(* payload reached through several unused group instances keeps, for each *)
(* of its unused nodes, the containment path ending in the name of the     *)
(* instance expanded first; in the report, the path through the first      *)
(* material that reaches the payload.                                      *)
C22_EarlierRecordKept ==
    /\ RecursiveOnMaterialTree =>
           \A n \in PayloadRecords :
               ret_dict[n].parent_tree =
                   PathVia(arg.parent_tree_name, First(UnusedInstances(arg.tree)))
    /\ ReportWithInstances =>
           \A n \in PayloadRecords :
               ret_dict[n].parent_tree =
                   PathVia(First(MaterialsWithInstances).name,
                           First(UnusedInstances(First(MaterialsWithInstances).node_tree)))

(* C22, as the code has it: a record found later replaces the earlier one  *)
(* for the same node: each unused payload node carries the containment     *)
(* path ending in the name of the instance expanded last; in the report,   *)
(* the path through the last material that reaches the payload.            *)
C22_LaterRecordWins ==
    /\ RecursiveOnMaterialTree =>
           \A n \in PayloadRecords :
               ret_dict[n].parent_tree =
                   PathVia(arg.parent_tree_name, Last(UnusedInstances(arg.tree)))
    /\ ReportWithInstances =>
           \A n \in PayloadRecords :
               ret_dict[n].parent_tree =
                   PathVia(Last(MaterialsWithInstances).name,
                           Last(UnusedInstances(Last(MaterialsWithInstances).node_tree)))

\* the report on materials A and B, each with two unused instances of the
\* payload, holds a record of a payload node
C22_Witness ==
    /\ op = "build_report"
    /\ Len(MaterialsWithInstances) = 2
    /\ \A i \in {1, 2} : Len(UnusedInstances(MaterialsWithInstances[i].node_tree)) = 2
    /\ \E n \in PayloadRecords : ret_dict[n].parent_tree = "B.n6"

-----------------------------------------------------------------------------
(* find_unused_nodes_recursive, call by call.  arg.stack holds one frame   *)
(* per call of the function that has not returned: its tree, its           *)
(* containment path, its unused_dict and the keys its loop has still to    *)
(* look at.  The interpreter refuses a call when recursion_limit frames    *)
(* are on the stack (RecursionError), and the exception ends every frame.  *)

MaxRecursionLinks == 1
recursion_limit == 4

Frame(node_tree, parent_tree_name) ==
    Let(find_unused_nodes(node_tree, parent_tree_name, TRUE), LAMBDA unused_dict :
        [node_tree |-> node_tree, parent_tree_name |-> parent_tree_name,
         unused_dict |-> unused_dict, keys |-> SetSeq(DOMAIN unused_dict)])

Top(stack) == stack[Len(stack)]

nested_tree_name(parent_tree_name, node) ==
    IF parent_tree_name # "" THEN parent_tree_name \o "." \o nodes[node].name
    ELSE nodes[node].name

RecursionError_on_any_nested_call(stack) == Len(stack) >= 1

RecursionError(stack) == Len(stack) >= recursion_limit

\* find_unused_nodes_recursive(node_tree) is called on a tree
FindUnusedNodesRecursiveCall(t) ==
    /\ op = "init"
    /\ op' = "find_unused_nodes_recursive:loop"
    /\ arg' = [tree |-> t, parent_tree_name |-> "", show_attributes |-> TRUE,
               stack |-> <<Frame(t, "")>>, depth |-> 1]
    /\ result' = "running"
    /\ UNCHANGED <<world, ret_nodes, ret_dict, reports>>

\* one turn of "for node in list(unused_dict.keys())" in the innermost call
FindUnusedNodesRecursiveLoop ==
    /\ op = "find_unused_nodes_recursive:loop"
    /\ Top(arg.stack).keys # <<>>
    /\ \E top \in {Top(arg.stack)} : \E node \in {Head(top.keys)} :
       \E rest \in {[arg.stack EXCEPT ![Len(arg.stack)].keys = Tail(top.keys)]} :
          IF type(node) = "GROUP" /\ nodes[node].node_tree # None
          THEN IF RecursionError(arg.stack)
               THEN /\ op' = "find_unused_nodes_recursive:end"
                    /\ result' = "raised"
                    /\ arg' = [arg EXCEPT !.stack = <<>>]
               ELSE /\ arg' = [arg EXCEPT
                                 !.stack = Append(rest,
                                                  Frame(nodes[node].node_tree,
                                                        nested_tree_name(top.parent_tree_name,
                                                                         node))),
                                 !.depth = Max({@, Len(arg.stack) + 1})]
                    /\ UNCHANGED <<op, result>>
          ELSE /\ arg' = [arg EXCEPT !.stack = rest]
               /\ UNCHANGED <<op, result>>
    /\ UNCHANGED <<world, ret_nodes, ret_dict, reports>>

\* "return unused_dict" of the innermost call; its caller does
\* unused_dict.update(nested_unused)
FindUnusedNodesRecursiveReturn ==
    /\ op = "find_unused_nodes_recursive:loop"
    /\ Top(arg.stack).keys = <<>>
    /\ IF Len(arg.stack) = 1
       THEN /\ op' = "find_unused_nodes_recursive:end"
            /\ result' = "returned"
            /\ ret_dict' = Top(arg.stack).unused_dict
            /\ arg' = [arg EXCEPT !.stack = <<>>]
       ELSE /\ arg' = [arg EXCEPT
                         !.stack = [SubSeq(arg.stack, 1, Len(arg.stack) - 1) EXCEPT
                                       ![Len(arg.stack) - 1].unused_dict =
                                           DictUpdate(@, Top(arg.stack).unused_dict)]]
            /\ UNCHANGED <<op, result, ret_dict>>
    /\ UNCHANGED <<world, ret_nodes, reports>>

\* material tree TA instantiates P; P and Q may instantiate each other or
\* themselves
RecursionSlots ==
    << {<<"TA", "ShaderNodeOutputMaterial", None>>},
       {<<"TA", "ShaderNodeGroup", "P">>},
       {<<"P", "ShaderNodeOutputMaterial", None>>, <<"P", "NodeGroupOutput", None>>},
       {<<"P", "ShaderNodeGroup", "Q">>, <<"P", "ShaderNodeGroup", "P">>,
        <<"P", "ShaderNodeBsdfPrincipled", None>>},
       {<<"Q", "ShaderNodeOutputMaterial", None>>, <<"Q", "NodeGroupOutput", None>>},
       {<<"Q", "ShaderNodeGroup", "P">>, <<"Q", "ShaderNodeGroup", "Q">>,
        <<"Q", "ShaderNodeBsdfPrincipled", None>>} >>

InitRecursion ==
    /\ \E pick \in SlotPicks(RecursionSlots, Len(RecursionSlots)) :
           nodes = [n \in DOMAIN RecursionSlots |->
                       NewNode(n, pick[n][1], pick[n][2], pick[n][3])]
    /\ links \in {S \in SUBSET {l \in [from_node : DOMAIN RecursionSlots,
                                       to_node : DOMAIN RecursionSlots] :
                                    /\ l.from_node > l.to_node
                                    /\ SameTree(nodes, l.from_node, l.to_node)} :
                      Cardinality(S) <= MaxRecursionLinks}
    /\ materials = <<[name |-> "A", use_nodes |-> TRUE, node_tree |-> "TA"]>>
    /\ set_order = Ascending(Len(RecursionSlots))
    /\ NoCall

NextRecursion ==
    \/ \E t \in Trees : FindUnusedNodesRecursiveCall(t)
    \/ FindUnusedNodesRecursiveLoop
    \/ FindUnusedNodesRecursiveReturn

\* the interpreter goes on executing a call that has begun
SpecRecursion ==
    InitRecursion /\ [][NextRecursion]_vars /\ WF_vars(FindUnusedNodesRecursiveLoop)
                  /\ WF_vars(FindUnusedNodesRecursiveReturn)

-----------------------------------------------------------------------------
\* the instantiation relation among the trees: the payloads of the group
\* nodes of a tree, and everything reached from a set of trees through it
InstChildren(tree) ==
    {nodes[g].node_tree :
        g \in {n \in NodesOf(tree) : type(n) = "GROUP" /\ nodes[n].node_tree # None}}

RECURSIVE InstReach(_)
InstReach(S) ==
    Let(S \cup UNION {InstChildren(t) : t \in S},
        LAMBDA next : IF next = S THEN S ELSE InstReach(next))

InstAcyclic == \A t \in Trees : t \notin InstReach(InstChildren(t))

\* the number of levels of payloads below a tree (for an acyclic relation)
RECURSIVE NestingDepth(_)
NestingDepth(tree) ==
    IF InstChildren(tree) = {} THEN 0
    ELSE 1 + Max({NestingDepth(t) : t \in InstChildren(tree)})

\* the payloads the function goes into from a tree: those of the group
\* nodes it finds unused there
ExpandedChildren(tree) ==
    {nodes[g].node_tree :
        g \in {n \in DOMAIN find_unused_nodes(tree, "", TRUE) :
                  type(n) = "GROUP" /\ nodes[n].node_tree # None}}

RECURSIVE ExpansionReach(_)
ExpansionReach(S) ==
    Let(S \cup UNION {ExpandedChildren(t) : t \in S},
        LAMBDA next : IF next = S THEN S ELSE ExpansionReach(next))

\* the expansion that starts at the tree comes back to a tree it has been in
ExpansionCycle(tree) ==
    \E u \in ExpansionReach({tree}) : u \in ExpansionReach(ExpandedChildren(u))

\* the tree has an output node and an unused group node whose payload is,
\* or leads back to, the tree itself
SelfInstantiating(tree) ==
    /\ get_output_nodes(tree) # {}
    /\ \E g \in DOMAIN find_unused_nodes(tree, "", TRUE) :
           /\ type(g) = "GROUP"
           /\ nodes[g].node_tree # None
           /\ tree \in InstReach({nodes[g].node_tree})

RecursionCalled ==
    op \in {"find_unused_nodes_recursive:loop", "find_unused_nodes_recursive:end"}

RecursionEnded == op = "find_unused_nodes_recursive:end"

DepthWithinNesting ==
    RecursionCalled /\ InstAcyclic =>
        /\ arg.depth <= 1 + NestingDepth(arg.tree)
        /\ result # "raised"

-----------------------------------------------------------------------------
\* the pairs (attribute node, unused node it was generated for) of the
\* invocation; the attribute node is NoNode where none was generated
GeneratedPairs ==
    Range(add_attribute_nodes(arg.cleaned, arg.tree, keys(ret_dict, arg.tree)).pairs)

(* C24: after the grid layout and the translation of group-unused, every   *)
(* generated attribute node sits at the vertical position of the node it   *)
(* was generated for and exactly 150 units to its left, whatever the name  *)
(* of that node.                                                           *)
C24_AttributeLeftOfTarget ==
    GroupDone =>
        \A pair \in GeneratedPairs :
            pair[1] # NoNode =>
                /\ nodes[pair[1]].location.y = nodes[pair[2]].location.y
                /\ nodes[pair[1]].location.x = nodes[pair[2]].location.x - attr_offset

-----------------------------------------------------------------------------
(* C25: for a fixed set of nodes and a fixed column count the grid layout  *)
(* gives every node the same position whatever the order of the list it   *)
(* is passed, nodes that start at identical positions included.            *)
C25_OrderIndependent ==
    op = "layout_nodes_grid" =>
        \A n \in DOMAIN nodes :
            layout_nodes_grid(arg.before, Reverse(arg.nodes), arg.cols,
                              arg.gap_x, arg.gap_y)[n].location = nodes[n].location

-----------------------------------------------------------------------------
FramesOf(ns, node_tree) ==
    {n \in DOMAIN ns : ns[n].tree = node_tree /\ NodeType(ns[n].bl_idname) = "FRAME"}

(* C26: in every graph with at least one output-terminal node every frame  *)
(* node is classified unused; delete-unused removes every frame of the     *)
(* graph it ran on, and group-unused moves every frame the graph held      *)
(* before the invocation into the quarantine frame it creates.             *)
C26_FramesAlwaysUnused ==
    /\ \A t \in Trees :
           OutputTerminals(t) # {} =>
               FramesOf(nodes, t) \subseteq DOMAIN find_unused_nodes(t, "", TRUE)
    /\ DeleteDone => FramesOf(nodes, "TA") = {}
    /\ GroupDone =>
           \A f \in FramesOf(arg.before.nodes, arg.tree) :
               /\ f \in DOMAIN nodes
               /\ nodes[f].parent \in FramesOf(nodes, arg.tree) \cap CreatedNodes

-----------------------------------------------------------------------------
DeleteFinished ==
    op = "node.delete_unused_nodes" /\ arg.tree # None /\ result = "FINISHED"

\* the delete operator is invoked again on the graph it has just finished on
RepeatedDelete == DeleteFinished /\ DeleteUnusedNodes(arg.tree)

(* C27: after a delete-unused that finished on a graph the recursive       *)
(* analysis of the graph finds nothing and the used set of the graph is    *)
(* the one from before the deletion; a delete-unused repeated at once on   *)
(* the graph removes nothing and reports that no unused nodes were found.  *)
C27_DeleteIdempotent ==
    /\ [](DeleteFinished =>
            /\ DOMAIN find_unused_nodes_recursive(arg.tree, "", TRUE) = {}
            /\ traverse_from_outputs(arg.tree) = UsedBefore)
    /\ [][RepeatedDelete =>
            /\ nodes' = nodes
            /\ links' = links
            /\ DOMAIN nodes' = DOMAIN arg'.before.nodes
            /\ result' = "FINISHED"
            /\ reports' = <<Report("INFO", "no unused nodes found", 0)>>]_vars

\* a delete that removed unused nodes, one of them linked to another, and
\* left used nodes behind
C27_Witness ==
    /\ DeleteFinished
    /\ Cardinality(DOMAIN ret_dict) >= 2
    /\ \E l \in arg.before.links : l.from_node \in DOMAIN ret_dict
    /\ Cardinality(UsedBefore) >= 2
    /\ DOMAIN nodes = UsedBefore \cup {n \in DOMAIN nodes : nodes[n].tree # arg.tree}

-----------------------------------------------------------------------------
(* C28: group-unused never changes which nodes of the graph are used: the  *)
(* used set after an invocation is the used set from before it, and the    *)
(* attribute nodes and the frame it created are unused.                    *)
C28_UsedSetUnchanged ==
    GroupDone =>
        /\ traverse_from_outputs(arg.tree) = UsedBefore
        /\ CreatedNodes \cap traverse_from_outputs(arg.tree) = {}

(* C28, as the code has it: the used set after an invocation is the used   *)
(* set of the graph once the old frame and the old _tmp_attr attribute     *)
(* nodes are removed, a subset of the used set from before; the two are    *)
(* equal when no _tmp_attr attribute node was used.  The nodes the         *)
(* invocation created are unused.                                          *)
C28_UsedSetOfCleanedGraph ==
    GroupDone =>
        /\ traverse_from_outputs(arg.tree) = UsedCleaned
        /\ UsedCleaned \subseteq UsedBefore
        /\ TmpAttrs(arg.before.nodes, arg.tree) \cap UsedBefore = {}
               => traverse_from_outputs(arg.tree) = UsedBefore
        /\ CreatedNodes \cap traverse_from_outputs(arg.tree) = {}

\* a leftover attribute node was used, the used set has shrunk by more than
\* that node, and the run created a frame and a linked attribute node
C28_Witness ==
    /\ GroupDone
    /\ TmpAttrs(arg.before.nodes, arg.tree) \cap UsedBefore # {}
    /\ \E n \in UsedBefore \ UsedCleaned : n \in DOMAIN nodes
    /\ Cardinality(UsedCleaned) >= 1
    /\ \E a \in CreatedNodes : \E l \in links : l.from_node = a
    /\ \E f \in CreatedNodes : NodeType(nodes[f].bl_idname) = "FRAME"
====
